---- MODULE Spec2Model ----
(***************************************************************************)
(* Email auto-operations: the relational store behind the repositories,    *)
(* the e-mail ingestion upserts, the rule-to-query compiler and the        *)
(* batched workflow execution engine.                                      *)
(*                                                                         *)
(* Text is modelled as a sequence of words.  '=' is equality of the word   *)
(* sequences, ILIKE '%v%' is "v occurs as a contiguous run of words" and   *)
(* the full-text match to_tsvector @@ plainto_tsquery is "every word of v  *)
(* is a word of the text" (stemming and stop words are left out).          *)
(***************************************************************************)
EXTENDS Integers, Sequences, FiniteSets, TLC

VARIABLES
    db,          \* the relational store: one set of rows per table, and the id sequences
    pc,          \* position of the workflow-processor invocation
    wf,          \* the parsed workflow document of the invocation
    loc,         \* locals of _process_rules / _apply_rule
    hist,        \* what the invocation did so far (provider calls, batches, outcome)
    invocations, \* workflow-processor invocations started so far
    runlog,      \* one entry per add_workflow_run call: the ids it returned
    ingest,      \* what the repository calls of the ingestion side did so far
    logging      \* the logging module's loggers by name, and the get_logger calls made

EngineVars == <<pc, wf, loc, hist, invocations, runlog>>

vars == <<db, pc, wf, loc, hist, invocations, runlog, ingest, logging>>

(***************************************************************************)
(* Bounds of the model.                                                    *)
(***************************************************************************)
MaxEmails == 2
MaxInvocations == 2
MaxCalls == 4
MaxTime == 3
PROCESSING_BATCH_SIZE == 2

NULL == "NULL"

(***************************************************************************)
(* Helpers on sequences and sets.                                          *)
(***************************************************************************)
Range(s) == {s[i] : i \in DOMAIN s}

Min(S) == CHOOSE x \in S : \A y \in S : x <= y

Take(s, n) == IF Len(s) <= n THEN s ELSE SubSeq(s, 1, n)

RECURSIVE Repeat(_, _)
Repeat(x, n) == IF n = 0 THEN <<>> ELSE <<x>> \o Repeat(x, n - 1)

(***************************************************************************)
(* The storage facade (DbClient).  A table is a set of rows; every insert  *)
(* draws the next value of the table's id sequence.                        *)
(***************************************************************************)
Tables == {"users", "folders", "emails", "email_recipients", "email_folders",
           "email_attachments", "workflow", "workflow_run", "workflow_run_activity"}

EmptyDb ==
    [users |-> {}, folders |-> {}, emails |-> {}, email_recipients |-> {},
     email_folders |-> {}, email_attachments |-> {}, workflow |-> {},
     workflow_run |-> {}, workflow_run_activity |-> {},
     seq |-> [t \in Tables |-> 1]]

\* _build_query_clause: column = value for every key of the condition, joined by AND
Matches(row, condition) == \A k \in DOMAIN condition : row[k] = condition[k]

\* INSERT ... RETURNING ID: the id the insert returns
InsertId(d, table) == d.seq[table]

Insert(d, table, data) ==
    [d EXCEPT ![table] = @ \cup {[id |-> d.seq[table]] @@ data},
              !.seq[table] = @ + 1]

\* UPDATE table SET data WHERE condition
Update(d, table, data, condition) ==
    [d EXCEPT ![table] =
        {IF Matches(row, condition)
            THEN [k \in DOMAIN row |-> IF k \in DOMAIN data THEN data[k] ELSE row[k]]
            ELSE row : row \in @}]

Fetch(d, table, condition) == {row \in d[table] : Matches(row, condition)}

Count(d, table, condition) == Cardinality(Fetch(d, table, condition))

\* SELECT ... LIMIT 1: some matching row; the caller tests HasOne first
HasOne(d, table, condition) == Fetch(d, table, condition) # {}

FetchOne(d, table, condition) == CHOOSE row \in Fetch(d, table, condition) : TRUE

\* A failed statement rolls the open transaction back: the rows written since the
\* last commit are gone, the sequence values they drew are not given back.
Rollback(before, now) == [before EXCEPT !.seq = now.seq]

(***************************************************************************)
(* UserRepository                                                          *)
(***************************************************************************)
upsert_user(d, email_address) ==
    IF HasOne(d, "users", [email_address |-> email_address])
    THEN d
    ELSE Insert(d, "users", [email_address |-> email_address])

upsert_user_id(d, email_address) ==
    IF HasOne(d, "users", [email_address |-> email_address])
    THEN FetchOne(d, "users", [email_address |-> email_address]).id
    ELSE InsertId(d, "users")

\* get_user_by_email: the row, or NULL
HasUser(d, email_address) == HasOne(d, "users", [email_address |-> email_address])

get_user_by_email(d, email_address) ==
    FetchOne(d, "users", [email_address |-> email_address])

(***************************************************************************)
(* FolderRepository                                                        *)
(***************************************************************************)
folder_record_object(user_id, folder) ==
    [provider_id |-> folder.id, name |-> folder.name, type |-> folder.type,
     user_id |-> user_id]

\* which of the three branches upsert_folder takes
upsert_folder_branch(d, folder) ==
    IF Count(d, "folders", [provider_id |-> folder.id]) # 0 THEN "by_provider_id"
    ELSE IF Count(d, "folders", [name |-> folder.name]) # 0 THEN "by_name"
    ELSE "insert"

upsert_folder(d, user_id, folder) ==
    LET branch == upsert_folder_branch(d, folder)
        rec == folder_record_object(user_id, folder)
    IN  CASE branch = "by_provider_id" ->
                Update(d, "folders", rec, [provider_id |-> folder.id])
          [] branch = "by_name" ->
                Update(d, "folders", rec, [name |-> folder.name])
          [] OTHER -> Insert(d, "folders", rec)

get_all_folders(d, user_id) == Fetch(d, "folders", [user_id |-> user_id])

(***************************************************************************)
(* EmailRepository: upsert_email                                           *)
(***************************************************************************)
\* datetime.fromtimestamp(ms / 1000, tz=utc): epoch milliseconds to the stored timestamp
received_timestamp_of(ms) == ms \div 1000

email_record_object(user_id, email) ==
    [subject |-> email.subject,
     provider_id |-> email.id,
     received_timestamp |-> received_timestamp_of(email.received_timestamp),
     sender_name |-> email.from.name,
     sender_email_address |-> email.from.email,
     user_id |-> user_id]

\* The child-row inserts of upsert_email, in the order the code issues them.
child_inserts(email_id, email, folder_ids) ==
    [i \in 1..Len(email.to) |->
        [table |-> "email_recipients",
         data |-> [email_id |-> email_id, email_address |-> email.to[i].email,
                   type |-> "to", name |-> email.to[i].name]]]
    \o
    [i \in 1..Len(email.cc) |->
        [table |-> "email_recipients",
         data |-> [email_id |-> email_id, email_address |-> email.cc[i].email,
                   type |-> "cc", name |-> email.cc[i].name]]]
    \o
    [i \in 1..Len(folder_ids) |->
        [table |-> "email_folders",
         data |-> [folder_id |-> folder_ids[i], email_id |-> email_id]]]
    \o
    [i \in 1..Len(email.attachments) |->
        [table |-> "email_attachments",
         data |-> [name |-> email.attachments[i].filename,
                   mime_type |-> email.attachments[i].mime_type,
                   email_id |-> email_id]]]

RECURSIVE InsertAll(_, _)
InsertAll(d, inserts) ==
    IF inserts = <<>> THEN d
    ELSE InsertAll(Insert(d, Head(inserts).table, Head(inserts).data), Tail(inserts))

\* every storage write of one upsert_email call: the email row, then its child rows
email_inserts(d, user_id, email, folder_ids) ==
    <<[table |-> "emails", data |-> email_record_object(user_id, email)]>>
    \o child_inserts(InsertId(d, "emails"), email, folder_ids)

email_exists(d, user_id, email) ==
    Count(d, "emails", [provider_id |-> email.id, user_id |-> user_id]) > 0

\* upsert_email without the count guard on (provider_id, user_id)
upsert_email_unguarded(d, user_id, email, folder_ids, fault) ==
    LET inserts == email_inserts(d, user_id, email, folder_ids)
    IN  IF fault = 0 \/ fault > Len(inserts)
        THEN InsertAll(d, inserts)
        ELSE Rollback(d, InsertAll(d, SubSeq(inserts, 1, fault - 1)))

\* fault = 0: every statement succeeds and the unit is committed;
\* fault = k > 0: the k-th insert raises psycopg2.Error, _execute rolls back and re-raises.
upsert_email(d, user_id, email, folder_ids, fault) ==
    IF email_exists(d, user_id, email) THEN d
    ELSE LET inserts == email_inserts(d, user_id, email, folder_ids)
         IN  IF fault = 0 \/ fault > Len(inserts)
             THEN InsertAll(d, inserts)
             ELSE Rollback(d, InsertAll(d, SubSeq(inserts, 1, fault - 1)))

\* does the call raise to its caller?
upsert_email_raises(d, user_id, email, folder_ids, fault) ==
    /\ ~email_exists(d, user_id, email)
    /\ fault > 0
    /\ fault <= Len(email_inserts(d, user_id, email, folder_ids))

(***************************************************************************)
(* The mail provider's side: accounts, labels and messages.                *)
(***************************************************************************)
Accounts == {"me@x", "other@x"}

\* the account whose OAuth token the local client holds
TokenAccounts == {"me@x"}

FolderIds == {"L1", "L2", "L3"}

FolderNames == {"Work", "Done"}

\* get_folders() results: a label keeps its id when renamed, and a name is free
\* again once its label is deleted
ProviderFolders == {[id |-> i, name |-> n, type |-> "user"] : i \in FolderIds, n \in FolderNames}

Ann == [name |-> <<"ann">>, email |-> "ann@x"]

Bob == [name |-> <<"bob">>, email |-> "bob@x"]

Rob == [name |-> <<"bob">>, email |-> "rob@x"]

Msg(id, subject, from, to, cc, day, attachments, folders) ==
    [id |-> id, subject |-> subject, from |-> from, to |-> to, cc |-> cc,
     received_timestamp |-> day * 1000, attachments |-> attachments, folders |-> folders]

Pdf == [filename |-> "a.pdf", mime_type |-> "application/pdf"]

\* Messages as _parse_message returns them.  m1 is listed under two label sets: the
\* second is what the provider reports after the user re-filed the message.
ProviderMessages ==
    {Msg("m1", <<"march", "invoice">>, Ann, <<Bob>>, <<>>, 0, <<>>, <<"Work">>),
     Msg("m1", <<"march", "invoice">>, Ann, <<Bob>>, <<>>, 0, <<>>, <<"Done">>),
     Msg("m2", <<"payroll">>, Ann, <<Bob, Rob>>, <<Ann>>, 1, <<Pdf>>, <<"Work", "Done">>),
     Msg("m3", <<"invoice">>, Bob, <<>>, <<>>, 2, <<>>, <<>>)}

\* folder_map = {folder["name"]: folder["id"] for folder in folders}: with two rows of
\* one name the dict keeps whichever the unordered fetch returns last
FolderMaps(d, user_id) ==
    LET rows == get_all_folders(d, user_id)
        names == {r.name : r \in rows}
    IN  {fm \in [names -> {r.id : r \in rows}] :
            \A n \in names : \E r \in rows : r.name = n /\ r.id = fm[n]}

RECURSIVE folder_ids_of(_, _)
folder_ids_of(folders, folder_map) ==
    IF folders = <<>> THEN <<>>
    ELSE (IF Head(folders) \in DOMAIN folder_map
             THEN <<folder_map[Head(folders)]>> ELSE <<>>)
         \o folder_ids_of(Tail(folders), folder_map)

\* the child rows of one email that are in the store
ChildRows(d, email_id) ==
    [recipients |-> {r \in d.email_recipients : r.email_id = email_id},
     folders |-> {r \in d.email_folders : r.email_id = email_id},
     attachments |-> {r \in d.email_attachments : r.email_id = email_id}]

AccountFolders ==
    <<[id |-> "L1", name |-> "Work", type |-> "user"],
      [id |-> "L2", name |-> "Done", type |-> "user"]>>

RECURSIVE upsert_folders(_, _, _)
upsert_folders(d, user_id, folders) ==
    IF folders = <<>> THEN d
    ELSE upsert_folders(upsert_folder(d, user_id, Head(folders)), user_id, Tail(folders))

(***************************************************************************)
(* Ingestion side: the repository calls EmailFetcher makes.                *)
(***************************************************************************)
MaxFault == 2

NoCall ==
    [op |-> "none", user_id |-> 0, provider_id |-> NULL, existed |-> FALSE,
     raised |-> FALSE, branch |-> NULL, folder_ids |-> <<>>]

IngestIdle == [calls |-> 0, first |-> <<>>, last |-> NoCall]

UserIds(d) == {u.id : u \in d.users}

\* EmailFetcher._process_folders, one folder of the provider's list
UpsertFolder(user_id, folder) ==
    /\ ingest.calls < MaxCalls
    /\ db' = upsert_folder(db, user_id, folder)
    /\ ingest' = [ingest EXCEPT
            !.calls = @ + 1,
            !.last = [op |-> "upsert_folder", user_id |-> user_id,
                      provider_id |-> folder.id, existed |-> FALSE, raised |-> FALSE,
                      branch |-> upsert_folder_branch(db, folder), folder_ids |-> <<>>]]
    /\ UNCHANGED <<EngineVars, logging>>

\* EmailFetcher._process_email: builds folder_ids, calls upsert_email and catches
\* whatever it raises
ProcessEmail(user_id, message, folder_map, fault) ==
    LET folder_ids == folder_ids_of(message.folders, folder_map)
        existed == email_exists(db, user_id, message)
        raised == upsert_email_raises(db, user_id, message, folder_ids, fault)
        after == upsert_email(db, user_id, message, folder_ids, fault)
        key == <<user_id, message.id>>
    IN  /\ ingest.calls < MaxCalls
        /\ db' = after
        /\ ingest' = [ingest EXCEPT
                !.calls = @ + 1,
                !.first = IF raised \/ key \in DOMAIN @ THEN @
                          ELSE (key :> [email_id |-> InsertId(db, "emails"),
                                        children |-> ChildRows(after, InsertId(db, "emails"))])
                               @@ @,
                !.last = [op |-> "upsert_email", user_id |-> user_id,
                          provider_id |-> message.id, existed |-> existed,
                          raised |-> raised, branch |-> NULL, folder_ids |-> folder_ids]]
        /\ UNCHANGED <<EngineVars, logging>>

\* no logger has been created
NoLoggers == [calls |-> 0, loggers |-> <<>>]

EngineIdle ==
    /\ logging = NoLoggers
    /\ pc = "idle"
    /\ wf = NULL
    /\ loc = NULL
    /\ hist = NULL
    /\ invocations = 0
    /\ runlog = <<>>

\* Both accounts have started an ingestion run: their user rows exist.
InitFolders ==
    /\ db = upsert_user(upsert_user(EmptyDb, "me@x"), "other@x")
    /\ ingest = IngestIdle
    /\ EngineIdle

NextFolders ==
    \E u \in UserIds(db), f \in ProviderFolders : UpsertFolder(u, f)

SpecFolders == InitFolders /\ [][NextFolders]_vars

\* As above, and the run of me@x has synced its folders.
InitIngest ==
    /\ db = LET d == upsert_user(upsert_user(EmptyDb, "me@x"), "other@x")
            IN  upsert_folders(d, upsert_user_id(d, "me@x"), AccountFolders)
    /\ ingest = IngestIdle
    /\ EngineIdle

NextIngest ==
    \E u \in UserIds(db), m \in ProviderMessages, fault \in 0..MaxFault :
        \E fm \in FolderMaps(db, u) : ProcessEmail(u, m, fm, fault)

SpecIngest == InitIngest /\ [][NextIngest]_vars

(***************************************************************************)
(* Claims about the ingestion side.                                        *)
(***************************************************************************)
EmailsOf(d, user_id, provider_id) ==
    Fetch(d, "emails", [provider_id |-> provider_id, user_id |-> user_id])

C8_OneRowPerProviderId ==
    \A r1, r2 \in db.folders : r1.provider_id = r2.provider_id => r1.id = r2.id

\* C8, the three branches: a provider-id match updates the matching rows in place, else
\* a name match updates the rows of that name, else one row is inserted.
C8_Branches ==
    [][(ingest'.last.op = "upsert_folder" /\ ingest'.calls # ingest.calls) =>
        LET pid == ingest'.last.provider_id
            br == ingest'.last.branch
            byPid == {r \in db.folders : r.provider_id = pid}
        IN  /\ br = "by_provider_id" <=> byPid # {}
            /\ br = "insert" =>
                    /\ Cardinality(db'.folders) = Cardinality(db.folders) + 1
                    /\ db.folders \subseteq db'.folders
            /\ br # "insert" =>
                    /\ {r.id : r \in db'.folders} = {r.id : r \in db.folders}
                    /\ \E r \in db'.folders : r.provider_id = pid
            /\ br = "by_provider_id" =>
                    \A r \in db'.folders :
                        r.provider_id = pid <=> r.id \in {q.id : q \in byPid}
       ]_vars

(***************************************************************************)
(* EmailRepository: the rule compiler (_build_apply_filter_query) and the  *)
(* evaluation of the query it builds.                                      *)
(***************************************************************************)
FILTER_FIELDS_MAPPING ==
    [subject |-> [type |-> "string", field_name |-> "subject"],
     from |-> [type |-> "string", field_name |-> "CONCAT(sender_email_address, ' ', sender_name)"],
     to |-> [type |-> "string", field_name |-> "CONCAT(er.email_address, ' ', er.name)"],
     date_received |-> [type |-> "timestamp", field_name |-> "received_timestamp"]]

FULL_TEXT_SEARCH_FIELDS == {"subject"}

STRING_OPERATORS ==
    {"equals", "not_equals", "contains_tsvechor", "does_not_contains_tsvechor",
     "contains", "does_not_contains"}

TIMESTAMP_OPERATORS == {"greater_than", "less_than"}

BaseQuery == <<"SELECT", "emails.id,", "emails.provider_id", "FROM", "emails">>

RecipientJoin ==
    <<"JOIN", "email_recipients", "er", "ON", "emails.id", "=", "er.email_id",
      "AND", "er.type", "=", "'to'">>

\* the Python test  "contains" not in query  on the query text built so far
ContainsNotInQuery(query) == "contains" \notin Range(query)

\* the predicate _apply_string_condition is called with
string_operator(rule, query) ==
    IF rule.field_name \in FULL_TEXT_SEARCH_FIELDS /\ ContainsNotInQuery(query)
    THEN rule.predicate \o "_tsvechor"
    ELSE rule.predicate

\* One pass of the loop over workflow["rules"].  c is the compilation so far:
\* error (the exception raised, or NULL), query (the SELECT ... JOIN text) and conds.
compile_rule(c, rule) ==
    IF c.error # NULL THEN c
    ELSE IF rule.field_name \notin DOMAIN FILTER_FIELDS_MAPPING
    THEN [c EXCEPT !.error = "KeyError"]
    ELSE
      LET field_type == FILTER_FIELDS_MAPPING[rule.field_name].type
          query == IF rule.field_name = "to" /\ "email_recipients" \notin Range(c.query)
                   THEN c.query \o RecipientJoin ELSE c.query
      IN  IF field_type = "string"
          THEN LET operator == string_operator(rule, query)
               IN  IF operator \in STRING_OPERATORS
                   THEN [c EXCEPT !.query = query,
                            !.conds = Append(@, [kind |-> "string", field |-> rule.field_name,
                                                 operator |-> operator, value |-> rule.value,
                                                 value_type |-> rule.value_unit])]
                   ELSE [c EXCEPT !.query = query, !.error = "ValueError"]
          ELSE IF rule.predicate \in TIMESTAMP_OPERATORS
               THEN [c EXCEPT !.query = query,
                        !.conds = Append(@, [kind |-> "timestamp", field |-> rule.field_name,
                                             operator |-> rule.predicate, value |-> rule.value,
                                             value_type |-> rule.value_unit])]
               ELSE [c EXCEPT !.query = query, !.error = "ValueError"]

RECURSIVE compile_rules(_, _)
compile_rules(c, rules) ==
    IF rules = <<>> THEN c ELSE compile_rules(compile_rule(c, Head(rules)), Tail(rules))

\* last_processed_id 0 stands for None: both are falsy in  if last_processed_id:
build_apply_filter_query(workflow, user_id, last_processed_id, batch_size) ==
    LET c == compile_rules([error |-> NULL, query |-> BaseQuery, conds |-> <<>>],
                           workflow.rules)
    IN  [error |-> c.error,
         join |-> "email_recipients" \in Range(c.query),
         concat |-> IF workflow.condition = "all" THEN "AND" ELSE "OR",
         conds |-> c.conds,
         user_id |-> user_id,
         last_processed_id |-> last_processed_id,
         batch_size |-> batch_size]

\* NOW(), in the unit of the stored timestamps
Now == MaxTime

\* '{value} {value_type}' read as an interval; -1 when PostgreSQL rejects the text
NumberWords == [n \in {"1", "2"} |-> IF n = "1" THEN 1 ELSE 2]

interval_of(value, value_type) ==
    IF Len(value) # 1 \/ value[1] \notin DOMAIN NumberWords THEN -1
    ELSE IF value_type = "days" THEN NumberWords[value[1]]
    ELSE IF value_type = "months" THEN 30 * NumberWords[value[1]]
    ELSE -1

IsInfix(v, text) ==
    \E i \in 0..(Len(text) - Len(v)) : SubSeq(text, i + 1, i + Len(v)) = v

\* to_tsvector('english', text) @@ plainto_tsquery(v)
FullTextMatch(text, v) == v # <<>> /\ Range(v) \subseteq Range(text)

\* the SQL expression a rule field stands for, on one (email, recipient) row
FieldText(field, e, er) ==
    CASE field = "subject" -> e.subject
      [] field = "from" -> <<e.sender_email_address>> \o e.sender_name
      [] field = "to" -> <<er.email_address>> \o er.name

\* templates whose timestamp conditions compare with NOW() alone
cond_holds_without_interval(cond, e, er) ==
    IF cond.kind = "string"
    THEN LET text == FieldText(cond.field, e, er)
         IN  CASE cond.operator = "equals" -> text = cond.value
               [] cond.operator = "not_equals" -> text # cond.value
               [] cond.operator = "contains_tsvechor" -> FullTextMatch(text, cond.value)
               [] cond.operator = "does_not_contains_tsvechor" ->
                        ~FullTextMatch(text, cond.value)
               [] cond.operator = "contains" -> IsInfix(cond.value, text)
               [] cond.operator = "does_not_contains" -> ~IsInfix(cond.value, text)
    ELSE CASE cond.operator = "greater_than" -> e.received_timestamp > Now
           [] cond.operator = "less_than" -> e.received_timestamp < Now

\* STRING_OPERATORS / TIMESTAMP_OPERATORS templates, evaluated on one row
cond_holds(cond, e, er) ==
    IF cond.kind = "string"
    THEN LET text == FieldText(cond.field, e, er)
         IN  CASE cond.operator = "equals" -> text = cond.value
               [] cond.operator = "not_equals" -> text # cond.value
               [] cond.operator = "contains_tsvechor" -> FullTextMatch(text, cond.value)
               [] cond.operator = "does_not_contains_tsvechor" ->
                        ~FullTextMatch(text, cond.value)
               [] cond.operator = "contains" -> IsInfix(cond.value, text)
               [] cond.operator = "does_not_contains" -> ~IsInfix(cond.value, text)
    ELSE LET span == interval_of(cond.value, cond.value_type)
         IN  CASE cond.operator = "greater_than" -> e.received_timestamp > Now + span
               [] cond.operator = "less_than" -> e.received_timestamp < Now - span

\* a WHERE clause that leaves the id ceiling out
where_holds_without_cursor(q, e, er) ==
    /\ e.user_id = q.user_id
    /\ IF q.concat = "AND"
       THEN \A i \in DOMAIN q.conds : cond_holds(q.conds[i], e, er)
       ELSE \E i \in DOMAIN q.conds : cond_holds(q.conds[i], e, er)

\* WHERE emails.user_id = u [AND emails.id < last] AND (c1 AND|OR c2 ...)
where_holds(q, e, er) ==
    /\ e.user_id = q.user_id
    /\ (q.last_processed_id # 0 => e.id < q.last_processed_id)
    /\ IF q.concat = "AND"
       THEN \A i \in DOMAIN q.conds : cond_holds(q.conds[i], e, er)
       ELSE \E i \in DOMAIN q.conds : cond_holds(q.conds[i], e, er)

\* PostgreSQL rejects the statement:  AND ()  for an empty rule list, or an interval
\* text it cannot read
sql_error(q) ==
    \/ q.conds = <<>>
    \/ \E i \in DOMAIN q.conds :
            /\ q.conds[i].kind = "timestamp"
            /\ interval_of(q.conds[i].value, q.conds[i].value_type) < 0

NoRecipient == [id |-> 0, email_id |-> 0, email_address |-> NULL, type |-> NULL, name |-> <<>>]

\* how many result rows one email contributes: one per joined 'to' recipient that
\* passes the WHERE clause, or one when the query has no join
row_count(d, q, e) ==
    IF q.join
    THEN Cardinality({er \in d.email_recipients :
                        er.email_id = e.id /\ er.type = "to" /\ where_holds(q, e, er)})
    ELSE IF where_holds(q, e, NoRecipient) THEN 1 ELSE 0

\* ORDER BY emails.id ASC
RECURSIVE rows_asc(_, _, _)
rows_asc(d, q, es) ==
    IF es = {} THEN <<>>
    ELSE LET e == CHOOSE x \in es : \A y \in es : x.id <= y.id
         IN  Repeat([id |-> e.id, provider_id |-> e.provider_id], row_count(d, q, e))
             \o rows_asc(d, q, es \ {e})

\* ORDER BY emails.id DESC
RECURSIVE rows_desc(_, _, _)
rows_desc(d, q, es) ==
    IF es = {} THEN <<>>
    ELSE LET e == CHOOSE x \in es : \A y \in es : y.id <= x.id
         IN  Repeat([id |-> e.id, provider_id |-> e.provider_id], row_count(d, q, e))
             \o rows_desc(d, q, es \ {e})

\* LIMIT batch_size
run_query_unlimited(d, q) == rows_desc(d, q, d.emails)

run_query(d, q) == Take(rows_desc(d, q, d.emails), q.batch_size)

\* get_emails_by_applying_rules: raises when compilation or the statement fails
get_emails_raises(d, workflow, user_id, last_processed_id, batch_size) ==
    LET q == build_apply_filter_query(workflow, user_id, last_processed_id, batch_size)
    IN  q.error # NULL \/ sql_error(q)

get_emails_by_applying_rules(d, workflow, user_id, last_processed_id, batch_size) ==
    run_query(d, build_apply_filter_query(workflow, user_id, last_processed_id, batch_size))

(***************************************************************************)
(* WorfklowRepository                                                      *)
(***************************************************************************)
\* json.dumps(workflow): a text that determines the document and is determined by it
json_dumps(workflow) == <<"json", workflow>>

\* utils.encoders.hash: base64 of the SHA-256 digest; distinct model inputs have
\* distinct digests
hash(content) == <<"sha256", content>>

\* a lookup that never finds the stored workflow
no_workflow_id(d, content_hash) == 0

\* fetch_one("workflow", {"hash": content_hash}).get("id"), 0 for None
find_workflow_id(d, content_hash) ==
    IF HasOne(d, "workflow", [hash |-> content_hash])
    THEN FetchOne(d, "workflow", [hash |-> content_hash]).id
    ELSE 0

\* add_workflow_run returns (workflow_id, run_id)
add_workflow_run_ids(d, workflow) ==
    LET found == find_workflow_id(d, hash(json_dumps(workflow)))
    IN  [workflow_id |-> IF found = 0 THEN InsertId(d, "workflow") ELSE found,
         run_id |-> InsertId(d, "workflow_run")]

add_workflow_run(d, workflow) ==
    LET content == json_dumps(workflow)
        content_hash == hash(content)
        found == find_workflow_id(d, content_hash)
        d1 == IF found = 0
              THEN Insert(d, "workflow", [hash |-> content_hash, content |-> content])
              ELSE d
        workflow_id == IF found = 0 THEN InsertId(d, "workflow") ELSE found
    IN  Insert(d1, "workflow_run",
               [workflow_id |-> workflow_id, status |-> "yet_to_start",
                started_at |-> NULL, completed_at |-> NULL])

mark_workflow_run_as_started(d, run_id) ==
    Update(d, "workflow_run", [status |-> "running", started_at |-> "now"], [id |-> run_id])

mark_workflow_run_as_completed(d, run_id, is_successful) ==
    Update(d, "workflow_run",
           [status |-> IF is_successful THEN "completed" ELSE "failed",
            completed_at |-> "now"],
           [id |-> run_id])

add_workflow_run_log(d, run_id, email_id, action_type) ==
    Insert(d, "workflow_run_activity",
           [run_id |-> run_id, email_id |-> email_id, action_type |-> action_type])

(***************************************************************************)
(* Workflow documents.                                                     *)
(***************************************************************************)
Rule(field_name, predicate, value, value_unit) ==
    [field_name |-> field_name, predicate |-> predicate, value |-> value,
     value_unit |-> value_unit]

Workflow(condition, rules, action, action_target) ==
    [condition |-> condition, rules |-> rules, action |-> action,
     action_target |-> action_target]

SubjectContains == Rule("subject", "contains", <<"invoice">>, NULL)

SubjectEquals == Rule("subject", "equals", <<"payroll">>, NULL)

ToContains == Rule("to", "contains", <<"bob">>, NULL)

FromContains == Rule("from", "contains", <<"ann">>, NULL)

ReceivedBefore == Rule("date_received", "less_than", <<"1">>, "days")

UnknownField == Rule("body", "contains", <<"invoice">>, NULL)

\* the workflow files an invocation may be pointed at
WorkflowFiles ==
    {Workflow("all", <<SubjectContains>>, "mark_read", NULL),
     Workflow("all", <<SubjectEquals>>, "mark_read", NULL),
     Workflow("all", <<ToContains>>, "move", "Done"),
     Workflow("all", <<FromContains, ReceivedBefore>>, "mark_read", NULL),
     Workflow("any", <<SubjectContains, ToContains>>, "mark_read", NULL),
     Workflow("all", <<>>, "mark_read", NULL),
     Workflow("all", <<UnknownField>>, "mark_read", NULL),
     Workflow("all", <<SubjectContains>>, "delete", NULL),
     Workflow("either", <<FromContains>>, "move", "Done")}

\* The validation schema: condition is "all" or "any", rules is a list of
\* {field_name, predicate, value, value_unit?} and action is "mark_read" or "move".
SchemaValid(workflow) ==
    /\ workflow.condition \in {"all", "any"}
    /\ workflow.action \in {"mark_read", "move"}
    /\ \A i \in DOMAIN workflow.rules :
            {"field_name", "predicate", "value"} \subseteq DOMAIN workflow.rules[i]

\* a validation that accepts every document
validate_skipped(workflow) == FALSE

\* _validate_rules: jsonschema.validate raises ValidationError on a violation
validate_rules_raises(workflow) == ~SchemaValid(workflow)

(***************************************************************************)
(* WorkflowProcessor                                                       *)
(***************************************************************************)
MaxFailures == 1

NoLocals ==
    [workflow_id |-> 0, run_id |-> 0, user_id |-> 0, last_processed_email_id |-> 0,
     matching_emails |-> <<>>]

\* History of one invocation: the store when it began, the provider calls it made,
\* the batches its queries returned, and how _process_rules and execute ended.
NewHistory(d) ==
    [db0 |-> d, provider |-> <<>>, batches |-> <<>>, queries |-> 0, failures |-> 0,
     outcome |-> "running", raised |-> FALSE, propagated |-> FALSE]

ProviderCall(op, email_id, provider_id, raised) ==
    [op |-> op, email_id |-> email_id, provider_id |-> provider_id, raised |-> raised]

\* execute -> _process_rules: parse_json_file, then _validate_rules.  A ValidationError
\* leaves _process_rules and is caught and logged by execute.
Execute(workflow) ==
    /\ pc \in {"idle", "done"}
    /\ invocations < MaxInvocations
    /\ invocations' = invocations + 1
    /\ wf' = workflow
    /\ loc' = NoLocals
    /\ IF validate_rules_raises(workflow)
       THEN /\ pc' = "done"
            /\ hist' = [NewHistory(db) EXCEPT !.outcome = "ValidationError", !.raised = TRUE]
       ELSE /\ pc' = "authenticate"
            /\ hist' = NewHistory(db)
    /\ UNCHANGED <<db, runlog, ingest, logging>>

\* an authenticate step that creates the missing user, as EmailFetcher._process_user does
AuthenticateUpserts(address) ==
    /\ pc = "authenticate"
    /\ db' = upsert_user(db, address)
    /\ pc' = "persist"
    /\ loc' = [loc EXCEPT !.user_id = upsert_user_id(db, address)]
    /\ hist' = [hist EXCEPT
            !.provider = Append(@, ProviderCall("authenticate", 0, NULL, FALSE))]
    /\ UNCHANGED <<wf, invocations, runlog, ingest, logging>>

\* authenticate() and get_user_by_email; a missing user raises ValueError
Authenticate(address) ==
    /\ pc = "authenticate"
    /\ IF HasUser(db, address)
       THEN /\ pc' = "persist"
            /\ loc' = [loc EXCEPT !.user_id = get_user_by_email(db, address).id]
            /\ hist' = [hist EXCEPT
                    !.provider = Append(@, ProviderCall("authenticate", 0, NULL, FALSE))]
       ELSE /\ pc' = "done"
            /\ loc' = loc
            /\ hist' = [hist EXCEPT
                    !.provider = Append(@, ProviderCall("authenticate", 0, NULL, FALSE)),
                    !.outcome = "UserNotFound", !.raised = TRUE]
    /\ UNCHANGED <<db, wf, invocations, runlog, ingest, logging>>

\* workflow_id, run_id = self._persis_workflow(workflow)
PersistWorkflow ==
    /\ pc = "persist"
    /\ LET ids == add_workflow_run_ids(db, wf)
       IN  /\ db' = add_workflow_run(db, wf)
           /\ loc' = [loc EXCEPT !.workflow_id = ids.workflow_id, !.run_id = ids.run_id]
           /\ runlog' = Append(runlog, [content |-> json_dumps(wf),
                                        workflow_id |-> ids.workflow_id,
                                        run_id |-> ids.run_id])
    /\ pc' = "mark_started"
    /\ UNCHANGED <<wf, hist, invocations, ingest, logging>>

\* self._mark_workflow_as_started(workflow_id)
MarkStarted ==
    /\ pc = "mark_started"
    /\ db' = mark_workflow_run_as_started(db, loc.workflow_id)
    /\ pc' = "query"
    /\ UNCHANGED <<wf, loc, hist, invocations, runlog, ingest, logging>>

\* _apply_rule: one get_emails_by_applying_rules call, with the cursor reached so far.
\* An exception leaves the loop for the except branch of _process_rules; an empty
\* result ends the loop.
QueryBatch ==
    /\ pc = "query"
    /\ IF get_emails_raises(db, wf, loc.user_id, loc.last_processed_email_id,
                            PROCESSING_BATCH_SIZE)
       THEN /\ pc' = "mark_failed"
            /\ loc' = loc
            /\ hist' = [hist EXCEPT !.queries = @ + 1]
       ELSE LET matching_emails ==
                    get_emails_by_applying_rules(db, wf, loc.user_id,
                        loc.last_processed_email_id, PROCESSING_BATCH_SIZE)
            IN  /\ pc' = IF matching_emails = <<>> THEN "mark_completed" ELSE "apply"
                /\ loc' = [loc EXCEPT !.matching_emails = matching_emails]
                /\ hist' = [hist EXCEPT
                        !.queries = @ + 1,
                        !.batches = IF matching_emails = <<>> THEN @
                                    ELSE Append(@, [i \in DOMAIN matching_emails |->
                                                        matching_emails[i].id])]
    /\ UNCHANGED <<db, wf, invocations, runlog, ingest, logging>>

action_op(workflow) ==
    CASE workflow.action = "mark_read" -> "mark_as_read"
      [] workflow.action = "move" -> "move_to_folder"
      [] OTHER -> NULL

\* the body of the for loop of _apply_rule for one email: the cursor is set, then
\* _apply_action calls the provider and appends the audit row, catching any exception.
\* fault: "none", "provider" (the provider call raises) or "log" (the insert raises).
ApplyAction(fault) ==
    /\ pc = "apply"
    /\ fault # "none" => hist.failures < MaxFailures
    /\ LET email == Head(loc.matching_emails)
           rest == Tail(loc.matching_emails)
       IN  /\ loc' = [loc EXCEPT !.last_processed_email_id = email.id,
                                 !.matching_emails = rest]
           /\ db' = IF fault = "none"
                    THEN add_workflow_run_log(db, loc.run_id, email.id, wf.action)
                    ELSE db
           /\ hist' = [hist EXCEPT
                    !.provider = IF action_op(wf) = NULL THEN @
                                 ELSE Append(@, ProviderCall(action_op(wf), email.id,
                                                    email.provider_id, fault = "provider")),
                    !.failures = IF fault = "none" THEN @ ELSE @ + 1]
           /\ pc' = IF rest = <<>> THEN "query" ELSE "apply"
    /\ UNCHANGED <<wf, invocations, runlog, ingest, logging>>

\* self._mark_workflow_as_completed(workflow_id); execute logs success
MarkCompleted ==
    /\ pc = "mark_completed"
    /\ db' = mark_workflow_run_as_completed(db, loc.workflow_id, TRUE)
    /\ hist' = [hist EXCEPT !.outcome = "ok"]
    /\ pc' = "done"
    /\ UNCHANGED <<wf, loc, invocations, runlog, ingest, logging>>

\* except: self._mark_workflow_as_completed(workflow_id, is_successful=False); raise e.
\* execute catches the exception and logs it.
MarkFailed ==
    /\ pc = "mark_failed"
    /\ db' = mark_workflow_run_as_completed(db, loc.workflow_id, FALSE)
    /\ hist' = [hist EXCEPT !.outcome = "error", !.raised = TRUE]
    /\ pc' = "done"
    /\ UNCHANGED <<wf, loc, invocations, runlog, ingest, logging>>

(***************************************************************************)
(* The store the workflow processor starts from: what earlier ingestion    *)
(* runs left behind.                                                       *)
(***************************************************************************)
\* EmailFetcher.execute for an account whose provider reports one new message
fetch_one(d, address, message) ==
    LET user_id == upsert_user_id(d, address)
        d1 == upsert_folders(upsert_user(d, address), user_id, AccountFolders)
        folder_map == CHOOSE fm \in FolderMaps(d1, user_id) : TRUE
    IN  upsert_email(d1, user_id, message, folder_ids_of(message.folders, folder_map), 0)

RECURSIVE fetch_all(_, _)
fetch_all(d, fetches) ==
    IF fetches = <<>> THEN d
    ELSE fetch_all(fetch_one(d, Head(fetches)[1], Head(fetches)[2]), Tail(fetches))

StoredChoices ==
    {<<"me@x", m>> : m \in {x \in ProviderMessages : x.folders # <<"Done">>}}
    \cup {<<"other@x", m>> : m \in {x \in ProviderMessages : x.folders = <<"Work">>}}

Corpora ==
    {c \in UNION {[1..n -> StoredChoices] : n \in 0..MaxEmails} :
        \A i, j \in DOMAIN c : i # j => c[i] # c[j]}

Init ==
    /\ \E c \in Corpora : db = fetch_all(EmptyDb, c)
    /\ ingest = IngestIdle
    /\ EngineIdle

Next ==
    \/ \E w \in WorkflowFiles : Execute(w)
    \/ \E a \in TokenAccounts : Authenticate(a)
    \/ PersistWorkflow
    \/ MarkStarted
    \/ QueryBatch
    \/ \E fault \in {"none", "provider", "log"} : ApplyAction(fault)
    \/ MarkCompleted
    \/ MarkFailed

Spec == Init /\ [][Next]_vars

(***************************************************************************)
(* Claims about the workflow processor.                                    *)
(***************************************************************************)
RunStatus(run_id) == (CHOOSE r \in db.workflow_run : r.id = run_id).status

RunCreated == loc.run_id # 0

\* C1: the run row created for the invocation is yet_to_start at creation, running
\* before the first matching query is issued and while the batch loop runs, and
\* completed once the loop has finished without an escaping exception.
C1_RunLifecycle ==
    /\ pc = "mark_started" => RunStatus(loc.run_id) = "yet_to_start"
    /\ pc \in {"query", "apply", "mark_completed", "mark_failed"} =>
            RunStatus(loc.run_id) = "running"
    /\ (pc = "done" /\ hist.outcome = "ok") => RunStatus(loc.run_id) = "completed"

StatusRank(status) ==
    CASE status = "yet_to_start" -> 0
      [] status = "running" -> 1
      [] OTHER -> 2

\* C2: the status of every WorkflowRun row only moves forward along
\* yet_to_start -> running -> {completed, failed}, and a row that is completed or
\* failed never has its status changed again.
C2_StatusMonotonic ==
    [][\A r \in db.workflow_run : \A r2 \in db'.workflow_run :
            r2.id = r.id =>
                /\ StatusRank(r.status) <= StatusRank(r2.status)
                /\ r.status \in {"completed", "failed"} => r2.status = r.status]_vars

\* C3: when an exception escapes the batch loop, the run row of the invocation is
\* failed by the time the exception leaves _process_rules.
C3_FailedBeforeRaise ==
    (pc = "done" /\ hist.outcome = "error") =>
        /\ hist.raised
        /\ RunStatus(loc.run_id) = "failed"

\* the ids of the emails the workflow's query matches for the user, over all pages
MatchingIds(d, workflow, user_id) ==
    {row.id : row \in Range(run_query_unlimited(d,
                build_apply_filter_query(workflow, user_id, 0, 0)))}

CeilDiv(n, b) == (n + b - 1) \div b

\* C5: over N matching emails with batch size B the loop obtains exactly ceil(N/B)
\* non-empty batches, each with a minimum id below the previous batch's minimum, and
\* no id is in two batches.
C5_KeysetPagination ==
    pc = "mark_completed" =>
        /\ Len(hist.batches) =
                CeilDiv(Cardinality(MatchingIds(db, wf, loc.user_id)), PROCESSING_BATCH_SIZE)
        /\ \A i \in DOMAIN hist.batches : hist.batches[i] # <<>>
        /\ \A i, j \in DOMAIN hist.batches :
                i < j => /\ Min(Range(hist.batches[j])) < Min(Range(hist.batches[i]))
                         /\ Range(hist.batches[i]) \cap Range(hist.batches[j]) = {}

\* What the rules mean: string predicates compare the field's text (token match for
\* the full-text field subject, substring otherwise; a "to" rule holds when some
\* to-recipient satisfies it), timestamp predicates compare with now -/+ the interval.
ToRecipients(d, e) == {er \in d.email_recipients : er.email_id = e.id /\ er.type = "to"}

TextSatisfies(field_name, predicate, value, text) ==
    CASE predicate = "equals" -> text = value
      [] predicate = "not_equals" -> text # value
      [] predicate = "contains" ->
            IF field_name \in FULL_TEXT_SEARCH_FIELDS
            THEN FullTextMatch(text, value) ELSE IsInfix(value, text)
      [] predicate = "does_not_contains" ->
            IF field_name \in FULL_TEXT_SEARCH_FIELDS
            THEN ~FullTextMatch(text, value) ELSE ~IsInfix(value, text)

RuleSatisfied(d, rule, e) ==
    CASE rule.field_name \in {"subject", "from"} ->
            TextSatisfies(rule.field_name, rule.predicate, rule.value,
                          FieldText(rule.field_name, e, NoRecipient))
      [] rule.field_name = "to" ->
            \E er \in ToRecipients(d, e) :
                TextSatisfies("to", rule.predicate, rule.value, FieldText("to", e, er))
      [] rule.field_name = "date_received" ->
            IF rule.predicate = "greater_than"
            THEN e.received_timestamp > Now + interval_of(rule.value, rule.value_unit)
            ELSE e.received_timestamp < Now - interval_of(rule.value, rule.value_unit)

\* the rules the rule language defines: a registered field with a predicate of its type
RuleDefined(rule) ==
    \/ /\ rule.field_name \in {"subject", "from", "to"}
       /\ rule.predicate \in {"equals", "not_equals", "contains", "does_not_contains"}
    \/ /\ rule.field_name = "date_received"
       /\ rule.predicate \in {"greater_than", "less_than"}
       /\ interval_of(rule.value, rule.value_unit) >= 0

ActionApplied(e) ==
    \E i \in DOMAIN hist.provider :
        /\ hist.provider[i].op = action_op(wf)
        /\ hist.provider[i].email_id = e.id
        /\ ~hist.provider[i].raised

AuditLogged(e) ==
    \E a \in db.workflow_run_activity :
        a.run_id = loc.run_id /\ a.email_id = e.id /\ a.action_type = wf.action

\* C6: for a workflow with condition all and a non-empty rule list, when every action
\* call succeeds, a stored email receives the action and an audit row in the run if
\* and only if it belongs to the authenticated user and satisfies every rule.
C6_ExactlyTheMatchingEmails ==
    (/\ pc = "done"
     /\ RunCreated
     /\ hist.failures = 0
     /\ wf.condition = "all"
     /\ wf.rules # <<>>
     /\ \A i \in DOMAIN wf.rules : RuleDefined(wf.rules[i]))
    => \A e \in db.emails :
            /\ ActionApplied(e) <=> AuditLogged(e)
            /\ AuditLogged(e) <=>
                    /\ e.user_id = loc.user_id
                    /\ \A i \in DOMAIN wf.rules : RuleSatisfied(db, wf.rules[i], e)

\* C7: there is exactly one Workflow row per distinct workflow content and exactly one
\* WorkflowRun row per add_workflow_run call; calls with identical content reference
\* the same Workflow row.
C7_WorkflowDedup ==
    /\ Cardinality(db.workflow_run) = Len(runlog)
    /\ Cardinality(db.workflow) = Cardinality({runlog[i].content : i \in DOMAIN runlog})
    /\ \A i \in DOMAIN runlog :
            /\ \E r \in db.workflow_run :
                    r.id = runlog[i].run_id /\ r.workflow_id = runlog[i].workflow_id
            /\ \E w \in db.workflow :
                    w.id = runlog[i].workflow_id /\ w.content = runlog[i].content
    /\ \A i, j \in DOMAIN runlog :
            /\ i # j => runlog[i].run_id # runlog[j].run_id
            /\ runlog[i].content = runlog[j].content <=>
                    runlog[i].workflow_id = runlog[j].workflow_id

\* C7 witness: the same workflow JSON was submitted twice and got two run ids.
C7_Witness ==
    /\ Len(runlog) >= 2
    /\ runlog[1].content = runlog[2].content
    /\ runlog[1].run_id # runlog[2].run_id

\* C9: when an action or audit insert raised for a matched email, the loop still
\* visits every matching email, and the run ends completed.
C9_PartialFailure ==
    (pc = "done" /\ RunCreated /\ hist.failures > 0) =>
        /\ hist.outcome = "ok"
        /\ MatchingIds(db, wf, loc.user_id) \subseteq
                {hist.provider[i].email_id : i \in DOMAIN hist.provider}
        /\ RunStatus(loc.run_id) = "completed"

\* C9 without the final status: the part that does not depend on the run row.
C9_LoopContinues ==
    (pc = "done" /\ RunCreated /\ hist.failures > 0) =>
        /\ hist.outcome = "ok"
        /\ MatchingIds(db, wf, loc.user_id) \subseteq
                {hist.provider[i].email_id : i \in DOMAIN hist.provider}

\* C10: a workflow document that violates the schema never gets past validation: the
\* invocation ends with ValidationError, the store is as it was when the invocation
\* began and no mail-provider operation was invoked.
C10_ValidationGate ==
    (pc # "idle" /\ ~SchemaValid(wf)) =>
        /\ pc = "done"
        /\ hist.outcome = "ValidationError"
        /\ db = hist.db0
        /\ hist.provider = <<>>

\* C10 witness: a violating document was rejected in the second invocation, after a
\* run of a valid workflow had written rows.
C10_Witness ==
    /\ pc = "done"
    /\ hist.outcome = "ValidationError"
    /\ db.workflow_run # {}
    /\ db.emails # {}

(***************************************************************************)
(* Claims about the user lookup of the workflow processor.                 *)
(***************************************************************************)
\* C11: when the address authenticate() returned has no user row, the invocation ends
\* with the user-not-found error raised out of _process_rules: the store is as it was
\* when the invocation began (no user, run or audit row was written) and the only
\* provider call made is authenticate.
C11_UserNotFound ==
    (/\ pc # "idle"
     /\ hist.provider # <<>>
     /\ \A a \in TokenAccounts : ~HasUser(hist.db0, a))
    => /\ pc = "done"
       /\ hist.outcome = "UserNotFound"
       /\ hist.raised
       /\ db = hist.db0
       /\ \A i \in DOMAIN hist.provider : hist.provider[i].op = "authenticate"

\* C11 witness: an invocation ended with the user-not-found error while emails of
\* another account are stored.
C11_Witness ==
    /\ pc = "done"
    /\ hist.outcome = "UserNotFound"
    /\ db.emails # {}
    /\ \A a \in TokenAccounts : ~HasUser(db, a)

(***************************************************************************)
(* EmailFetcher as a process: one ingestion run after another for the      *)
(* account of the local token.  In this specification the variable ingest  *)
(* holds the position and the locals of the run, and what it did so far.   *)
(***************************************************************************)
MaxRuns == 2

MaxUpsertFailures == 1

\* params.get("folder") of the fetch command
FolderParams == {NULL, "work"}

\* str.lower() / SQL LOWER on the folder names of the model
Lower(name) ==
    CASE name = "Work" -> "work"
      [] name = "Done" -> "done"
      [] OTHER -> name

\* what the provider holds for the account when a run starts: any set of messages
\* with distinct ids
Mailboxes ==
    {mb \in SUBSET ProviderMessages : \A m1, m2 \in mb : m1.id = m2.id => m1 = m2}

\* None where a timestamp is expected (the stored timestamps are not negative)
NoTime == 0 - 1

NoFilters == [before |-> NoTime, after |-> NoTime]

\* get_email_timestamp_extremes: <<latest, oldest>>, NoTime for None.  MAX and MIN over
\* no rows are NULL.
scoped_emails(d, user_id, folder) ==
    IF folder = NULL
    THEN {e \in d.emails : e.user_id = user_id}
    ELSE {e \in d.emails :
            /\ e.user_id = user_id
            /\ \E ef \in d.email_folders, f \in d.folders :
                    /\ ef.email_id = e.id
                    /\ ef.folder_id = f.id
                    /\ Lower(f.name) = Lower(folder)}

no_email_timestamp_extremes(d, user_id, folder) == <<NoTime, NoTime>>

get_email_timestamp_extremes(d, user_id, folder) ==
    LET stamps == {e.received_timestamp : e \in scoped_emails(d, user_id, folder)}
    IN  IF stamps = {} THEN <<NoTime, NoTime>>
        ELSE <<CHOOSE t \in stamps : \A u \in stamps : u <= t,
               CHOOSE t \in stamps : \A u \in stamps : t <= u>>

\* filters with the two extremes exchanged: before the newest, after the oldest
pass_filters_between(extremes) ==
    LET latest == extremes[1]
        oldest == extremes[2]
    IN  IF latest # NoTime \/ oldest # NoTime
        THEN <<[before |-> latest, after |-> NoTime], [before |-> NoTime, after |-> oldest]>>
        ELSE <<NoFilters>>

\* _process_emails: the filters of the _pull_messages calls, in call order
pass_filters(extremes) ==
    LET latest == extremes[1]
        oldest == extremes[2]
    IN  IF latest # NoTime \/ oldest # NoTime
        THEN <<[before |-> oldest, after |-> NoTime], [before |-> NoTime, after |-> latest]>>
        ELSE <<NoFilters>>

\* The provider's answer to get_emails(batch_size, folder, filters): the messages of
\* the label (in:folder) received strictly before / after the bounds, newest first,
\* in pages of batch_size.
query_matches(m, folder, filters) ==
    /\ folder # NULL => \E i \in DOMAIN m.folders : Lower(m.folders[i]) = Lower(folder)
    /\ filters.before # NoTime => received_timestamp_of(m.received_timestamp) < filters.before
    /\ filters.after # NoTime => received_timestamp_of(m.received_timestamp) > filters.after

RECURSIVE newest_first(_)
newest_first(ms) ==
    IF ms = {} THEN <<>>
    ELSE LET m == CHOOSE x \in ms :
                    \A y \in ms : y.received_timestamp <= x.received_timestamp
         IN  <<m>> \o newest_first(ms \ {m})

RECURSIVE pages(_, _)
pages(s, n) ==
    IF Len(s) <= n THEN <<s>>
    ELSE <<SubSeq(s, 1, n)>> \o pages(SubSeq(s, n + 1, Len(s)), n)

get_emails(mailbox, batch_size, folder, filters) ==
    pages(newest_first({m \in mailbox : query_matches(m, folder, filters)}), batch_size)

RECURSIVE Flatten(_)
Flatten(ss) == IF ss = <<>> THEN <<>> ELSE Head(ss) \o Flatten(Tail(ss))

\* the batches still to be processed, without the exhausted ones in front
RECURSIVE drop_empty(_)
drop_empty(batches) ==
    IF batches = <<>> THEN <<>>
    ELSE IF Head(batches) = <<>> THEN drop_empty(Tail(batches))
    ELSE batches

FetchIdle ==
    [pc |-> "idle", runs |-> 0, mailbox |-> {}, folder |-> NULL, user_id |-> 0,
     folder_map |-> <<>>, db0 |-> EmptyDb, extremes |-> <<NoTime, NoTime>>,
     passes |-> <<>>, pending |-> <<>>, delivered |-> <<>>, log |-> <<>>,
     failures |-> 0, outcome |-> "none"]

\* execute: authenticate() and _process_user
FetchExecute(address, mailbox, folder) ==
    /\ ingest.pc \in {"idle", "done"}
    /\ ingest.runs < MaxRuns
    /\ db' = upsert_user(db, address)
    /\ ingest' = [FetchIdle EXCEPT
            !.pc = "folders", !.runs = ingest.runs + 1, !.mailbox = mailbox,
            !.folder = folder, !.user_id = upsert_user_id(db, address),
            !.failures = ingest.failures, !.outcome = "running"]
    /\ UNCHANGED <<EngineVars, logging>>

\* _process_folders: get_folders() and one upsert_folder per folder
FetchFolders ==
    /\ ingest.pc = "folders"
    /\ db' = upsert_folders(db, ingest.user_id, AccountFolders)
    /\ ingest' = [ingest EXCEPT !.pc = "extremes"]
    /\ UNCHANGED <<EngineVars, logging>>

\* _process_emails up to the first _pull_messages call: folder_map and the extremes
FetchExtremes(folder_map) ==
    /\ ingest.pc = "extremes"
    /\ ingest' = [ingest EXCEPT
            !.pc = "pass",
            !.folder_map = folder_map,
            !.db0 = db,
            !.extremes = get_email_timestamp_extremes(db, ingest.user_id, ingest.folder)]
    /\ UNCHANGED <<db, pc, wf, loc, hist, invocations, runlog, logging>>

\* one _pull_messages call: get_emails with the next filters
FetchPass ==
    /\ ingest.pc = "pass"
    /\ Len(ingest.passes) < Len(pass_filters(ingest.extremes))
    /\ LET filters == pass_filters(ingest.extremes)[Len(ingest.passes) + 1]
           batches == get_emails(ingest.mailbox, PROCESSING_BATCH_SIZE,
                                 ingest.folder, filters)
       IN  ingest' = [ingest EXCEPT
                !.passes = Append(@, filters),
                !.pending = drop_empty(batches),
                !.delivered = @ \o Flatten(batches),
                !.pc = IF drop_empty(batches) = <<>> THEN "pass" ELSE "messages"]
    /\ UNCHANGED <<db, pc, wf, loc, hist, invocations, runlog, logging>>

\* a _process_email that lets the exception of upsert_email escape: the run ends in
\* the except branch of execute
FetchMessageAborts(fault) ==
    LET message == Head(Head(ingest.pending))
        rest == drop_empty(<<Tail(Head(ingest.pending))>> \o Tail(ingest.pending))
        folder_ids == folder_ids_of(message.folders, ingest.folder_map)
        raised == upsert_email_raises(db, ingest.user_id, message, folder_ids, fault)
    IN  /\ ingest.pc = "messages"
        /\ fault > 0 => ingest.failures < MaxUpsertFailures
        /\ db' = upsert_email(db, ingest.user_id, message, folder_ids, fault)
        /\ ingest' = [ingest EXCEPT
                !.pending = IF raised THEN <<>> ELSE rest,
                !.log = Append(@, [provider_id |-> message.id, raised |-> raised]),
                !.failures = IF raised THEN @ + 1 ELSE @,
                !.outcome = IF raised THEN "error" ELSE @,
                !.pc = IF raised THEN "done" ELSE IF rest = <<>> THEN "pass" ELSE "messages"]
        /\ UNCHANGED <<EngineVars, logging>>

\* _pull_messages loop body: _process_email for the next message of the current
\* batch; whatever upsert_email raises is caught and logged
FetchMessage(fault) ==
    LET message == Head(Head(ingest.pending))
        rest == drop_empty(<<Tail(Head(ingest.pending))>> \o Tail(ingest.pending))
        folder_ids == folder_ids_of(message.folders, ingest.folder_map)
        raised == upsert_email_raises(db, ingest.user_id, message, folder_ids, fault)
    IN  /\ ingest.pc = "messages"
        /\ fault > 0 => ingest.failures < MaxUpsertFailures
        /\ db' = upsert_email(db, ingest.user_id, message, folder_ids, fault)
        /\ ingest' = [ingest EXCEPT
                !.pending = rest,
                !.log = Append(@, [provider_id |-> message.id, raised |-> raised]),
                !.failures = IF raised THEN @ + 1 ELSE @,
                !.pc = IF rest = <<>> THEN "pass" ELSE "messages"]
        /\ UNCHANGED <<EngineVars, logging>>

\* execute after _process_emails returned: "Emails fetched successfully."
FetchFinish ==
    /\ ingest.pc = "pass"
    /\ Len(ingest.passes) = Len(pass_filters(ingest.extremes))
    /\ ingest' = [ingest EXCEPT !.pc = "done", !.outcome = "ok"]
    /\ UNCHANGED <<db, pc, wf, loc, hist, invocations, runlog, logging>>

\* Before the first run of the account the store is empty or holds what a run of
\* another account left.
InitFetch ==
    /\ db \in {EmptyDb, fetch_one(EmptyDb, "other@x", CHOOSE m \in ProviderMessages :
                                                        m.folders = <<"Work">>)}
    /\ ingest = FetchIdle
    /\ EngineIdle

NextFetch ==
    \/ \E a \in TokenAccounts, mb \in Mailboxes, f \in FolderParams : FetchExecute(a, mb, f)
    \/ FetchFolders
    \/ \E fm \in FolderMaps(db, ingest.user_id) : FetchExtremes(fm)
    \/ FetchPass
    \/ \E fault \in 0..MaxFault : FetchMessage(fault)
    \/ FetchFinish

SpecFetch == InitFetch /\ [][NextFetch]_vars

(***************************************************************************)
(* Claims about the ingestion run.                                         *)
(***************************************************************************)
\* the received timestamps the user has stored (in the folder, when one is given)
StoredStamps(d, user_id, folder) ==
    {e.received_timestamp :
        e \in {x \in d.emails :
                /\ x.user_id = user_id
                /\ folder # NULL =>
                     \E f \in d.folders :
                        /\ Lower(f.name) = Lower(folder)
                        /\ [id |-> 0, folder_id |-> f.id, email_id |-> x.id]
                             \in {[ef EXCEPT !.id = 0] : ef \in d.email_folders}}}

\* C12: a finished ingestion run issued exactly two passes when the user already had
\* stored emails (in the folder, when one is given) as the run began: first before =
\* the oldest stored received timestamp, then after = the newest one, both taken from
\* the store as it was before the first pass; and exactly one pass without a time
\* bound when nothing was stored.
C12_FetchPasses ==
    ingest.pc = "done" =>
        LET stamps == StoredStamps(ingest.db0, ingest.user_id, ingest.folder)
        IN  IF stamps = {}
            THEN ingest.passes = <<NoFilters>>
            ELSE ingest.passes =
                    <<[before |-> Min(stamps), after |-> NoTime],
                      [before |-> NoTime, after |-> CHOOSE t \in stamps : \A u \in stamps : u <= t]>>

\* C12 witness: a run over a store with two emails of different age has finished, and
\* its first pass stored an older message.
C12_Witness ==
    /\ ingest.pc = "done"
    /\ Len(ingest.passes) = 2
    /\ ingest.passes[1].before # ingest.passes[2].after
    /\ \E e \in db.emails : e.user_id = ingest.user_id /\ e \notin ingest.db0.emails

\* C13: when upsert_email raised for a message of an ingestion run, the run still
\* calls upsert_email for every message the provider delivered in every batch of
\* every pass, every message whose call did not raise is stored, and the run finishes
\* normally.
C13_IngestPartialFailure ==
    (ingest.pc = "done" /\ \E i \in DOMAIN ingest.log : ingest.log[i].raised) =>
        /\ ingest.outcome = "ok"
        /\ Len(ingest.passes) = Len(pass_filters(ingest.extremes))
        /\ [i \in DOMAIN ingest.delivered |-> ingest.delivered[i].id]
                = [i \in DOMAIN ingest.log |-> ingest.log[i].provider_id]
        /\ \A i \in DOMAIN ingest.log :
                ~ingest.log[i].raised =>
                    EmailsOf(db, ingest.user_id, ingest.log[i].provider_id) # {}

\* C13 witness: upsert_email raised for a message, and a later message of the run was
\* stored by its own call.
C13_Witness ==
    /\ ingest.pc = "done"
    /\ \E i, j \in DOMAIN ingest.log :
            /\ i < j
            /\ ingest.log[i].raised
            /\ ~ingest.log[j].raised
            /\ ingest.log[i].provider_id # ingest.log[j].provider_id
            /\ \E e \in db.emails :
                    /\ e.provider_id = ingest.log[j].provider_id
                    /\ e \notin ingest.db0.emails

(***************************************************************************)
(* utils.parsers.parse_address_field.  A string is a sequence of           *)
(* characters; None is NoText.  In this specification the variable ingest  *)
(* holds the header text handed to the parser and what the parser returned.*)
(***************************************************************************)
MaxPad == 1

MaxNameLen == 3

NoText == <<"None">>

\* the characters str.strip() removes and \s matches, of those in the model's alphabet
IsSpace(c) == c \in {" ", "\t"}

RECURSIVE lstrip(_)
lstrip(s) == IF s # <<>> /\ IsSpace(Head(s)) THEN lstrip(Tail(s)) ELSE s

RECURSIVE rstrip(_)
rstrip(s) ==
    IF s # <<>> /\ IsSpace(s[Len(s)]) THEN rstrip(SubSeq(s, 1, Len(s) - 1)) ELSE s

\* a strip that removes nothing
no_strip(s) == s

strip(s) == rstrip(lstrip(s))

\* the position after the run of whitespace that starts behind position k
RECURSIVE skip_spaces(_, _)
skip_spaces(s, k) ==
    IF k < Len(s) /\ IsSpace(s[k + 1]) THEN skip_spaces(s, k + 1) ELSE k

\* the index of the first ">" behind index i, 0 when there is none
first_gt(s, i) ==
    LET js == {j \in (i + 1)..Len(s) : s[j] = ">"}
    IN  IF js = {} THEN 0 ELSE Min(js)

\* \s*<([^>]+)>  matched right behind position k
bracket_at(s, k) ==
    LET i == skip_spaces(s, k) + 1
    IN  /\ i <= Len(s)
        /\ s[i] = "<"
        /\ first_gt(s, i) >= i + 2

\* re.match(r"(.*?)\s*<([^>]+)>", s): the lazy group takes the shortest prefix
\* behind which the rest matches.  matched, group 1 and group 2.
match_name_addr(s) ==
    LET ks == {k \in 0..Len(s) : bracket_at(s, k)}
    IN  IF ks = {} THEN [matched |-> FALSE, g1 |-> <<>>, g2 |-> <<>>]
        ELSE LET k == Min(ks)
                 i == skip_spaces(s, k) + 1
             IN  [matched |-> TRUE,
                  g1 |-> SubSeq(s, 1, k),
                  g2 |-> SubSeq(s, i + 1, first_gt(s, i) - 1)]

\* re.match(r"<([^>]+)>", s) and the group of re.search, which finds the same place
match_addr_only(s) ==
    IF s # <<>> /\ s[1] = "<" /\ first_gt(s, 1) >= 3
    THEN [matched |-> TRUE, g1 |-> SubSeq(s, 2, first_gt(s, 1) - 1)]
    ELSE [matched |-> FALSE, g1 |-> <<>>]

\* [^@\s<>]
IsAddrChar(c) == ~IsSpace(c) /\ c \notin {"@", "<", ">"}

\* re.match(r"^[^@\s<>]+@[^@\s<>]+\.[^@\s<>]+$", s)
match_bare_addr(s) ==
    \E p \in 2..Len(s) :
        /\ s[p] = "@"
        /\ \A t \in 1..(p - 1) : IsAddrChar(s[t])
        /\ \A t \in (p + 1)..Len(s) : IsAddrChar(s[t])
        /\ \E q \in (p + 2)..(Len(s) - 1) : s[q] = "."

parse_address_field(address0) ==
    LET address == strip(address0)
        m1 == match_name_addr(strip(address))
        m2 == match_addr_only(strip(address))
    IN  IF m1.matched
        THEN [name |-> IF m1.g1 # <<>> THEN strip(m1.g1) ELSE NoText,
              email |-> strip(m1.g2)]
        ELSE IF m2.matched
        THEN [name |-> NoText, email |-> strip(m2.g1)]
        ELSE IF match_bare_addr(strip(address))
        THEN [name |-> NoText, email |-> strip(address)]
        ELSE [name |-> strip(address), email |-> NoText]

\* Header texts of the four forms.
DisplayNames ==
    {n \in UNION {[1..k -> {"a", ".", " "}] : k \in 1..MaxNameLen} :
        ~IsSpace(n[1]) /\ ~IsSpace(n[Len(n)])}

Addresses ==
    {l \o <<"@">> \o d : l \in {<<"a", ".", "b">>, <<"a", "-", "=">>},
                         d \in {<<"b", ".", "c">>, <<"b", ".", "c", ".", "d">>}}

\* whitespace for the five places of a text: one whitespace character, up to MaxPad
\* times in each place
Pads ==
    {[i \in 1..5 |-> Repeat(c, n[i])] : c \in {" ", "\t"}, n \in [1..5 -> 0..MaxPad]}

AddressForms == {"name_addr", "addr_in_brackets", "addr", "name"}

\* the text of a form, with whitespace around the parts and inside the brackets
HeaderText(form, name, addr, p) ==
    CASE form = "name_addr" ->
            p[1] \o name \o p[2] \o <<"<">> \o p[3] \o addr \o p[4] \o <<">">> \o p[5]
      [] form = "addr_in_brackets" ->
            p[1] \o <<"<">> \o p[3] \o addr \o p[4] \o <<">">> \o p[5]
      [] form = "addr" -> p[1] \o addr \o p[5]
      [] form = "name" -> p[1] \o name \o p[5]

HeaderInputs ==
    {[form |-> f, name |-> n, addr |-> a, text |-> HeaderText(f, n, a, p)] :
        f \in AddressForms, n \in DisplayNames, a \in Addresses, p \in Pads}

NotParsed == [name |-> <<"?">>, email |-> <<"?">>]

\* GmailClient._parse_message: parse_address_field(headers.get("From"))
ParseAddress ==
    /\ ingest.calls = 0
    /\ ingest' = [ingest EXCEPT !.calls = 1,
                                !.result = parse_address_field(ingest.input.text)]
    /\ UNCHANGED <<db, pc, wf, loc, hist, invocations, runlog, logging>>

InitParse ==
    /\ db = EmptyDb
    /\ \E h \in HeaderInputs : ingest = [calls |-> 0, input |-> h, result |-> NotParsed]
    /\ EngineIdle

NextParse == ParseAddress

SpecParse == InitParse /\ [][NextParse]_vars

MaxLoggerCalls == 4

LoggerNames == {"test", "repositories.email"}

\* the level argument; the default is logging.INFO
LoggerLevels == {"INFO", "DEBUG"}

LogFormat == "%(asctime)s - %(name)s - %(levelname)s - %(message)s"

\* logging.getLogger(name): the logger of that name, created on first use
getLogger(loggers, name) ==
    IF name \in DOMAIN loggers THEN loggers[name]
    ELSE [name |-> name, level |-> "NOTSET", handlers |-> <<>>]

\* the registry after get_logger(name, level); the call returns its logger of that name
get_logger(loggers, name, level) ==
    LET logger == getLogger(loggers, name)
        console_handler == [class |-> "StreamHandler", level |-> level, fmt |-> LogFormat]
    IN  (name :> [logger EXCEPT !.level = level,
                                !.handlers = Append(@, console_handler)])
        @@ loggers

GetLogger(name, level) ==
    /\ logging.calls < MaxLoggerCalls
    /\ logging' = [calls |-> logging.calls + 1,
                   loggers |-> get_logger(logging.loggers, name, level),
                   last |-> [name |-> name, level |-> level]]
    /\ UNCHANGED <<db, pc, wf, loc, hist, invocations, runlog, ingest>>

InitLogger ==
    /\ db = EmptyDb
    /\ ingest = IngestIdle
    /\ EngineIdle

NextLogger == \E name \in LoggerNames, level \in LoggerLevels : GetLogger(name, level)

SpecLogger == InitLogger /\ [][NextLogger]_vars

\* C15: after any number of get_logger calls, the logger the last call returned has
\* the requested name and level (INFO by default) and exactly one handler, a
\* StreamHandler with the fixed format.
C15_OneHandler ==
    logging.calls > 0 =>
        LET logger == logging.loggers[logging.last.name]
        IN  /\ logger.name = logging.last.name
            /\ logger.level = logging.last.level
            /\ Len(logger.handlers) = 1
            /\ logger.handlers[1].class = "StreamHandler"
            /\ logger.handlers[1].fmt = LogFormat

\* C15, what holds: name and level are as requested and every handler is a
\* StreamHandler with the fixed format; there is one handler per call made for the name.
C15_NameLevelFormat ==
    logging.calls > 0 =>
        LET logger == logging.loggers[logging.last.name]
        IN  /\ logger.name = logging.last.name
            /\ logger.level = logging.last.level
            /\ Len(logger.handlers) >= 1
            /\ \A i \in DOMAIN logger.handlers :
                    /\ logger.handlers[i].class = "StreamHandler"
                    /\ logger.handlers[i].fmt = LogFormat

(***************************************************************************)
(* Further claims about the workflow processor and the rule compiler.      *)
(***************************************************************************)
\* C16: within one workflow run the action is invoked at most once per stored email,
\* and there is at most one workflow_run_activity row per (run, email, action_type).
C16_AtMostOncePerEmail ==
    pc # "idle" =>
        /\ \A i, j \in DOMAIN hist.provider :
                (/\ hist.provider[i].op # "authenticate"
                 /\ hist.provider[j].op # "authenticate"
                 /\ hist.provider[i].email_id = hist.provider[j].email_id) => i = j
        /\ \A a1, a2 \in db.workflow_run_activity :
                (/\ a1.run_id = loc.run_id
                 /\ a2.run_id = loc.run_id
                 /\ a1.email_id = a2.email_id
                 /\ a1.action_type = a2.action_type) => a1.id = a2.id

\* C16 for the workflows without a rule on the to field
C16_AtMostOnceWithoutToRule ==
    (pc # "idle" /\ \A r \in DOMAIN wf.rules : wf.rules[r].field_name # "to")
        => C16_AtMostOncePerEmail

\* the ids the compiled query selects for the user below the cursor, over all pages
SelectedIds(d, workflow, user_id, cursor) ==
    {row.id : row \in Range(run_query_unlimited(d,
                build_apply_filter_query(workflow, user_id, cursor, 0)))}

\* the emails of the user below the cursor (0: no cursor) that satisfy some rule
AnyRuleIds(d, workflow, user_id, cursor) ==
    {e.id : e \in {x \in d.emails :
                    /\ x.user_id = user_id
                    /\ cursor # 0 => x.id < cursor
                    /\ \E i \in DOMAIN workflow.rules : RuleSatisfied(d, workflow.rules[i], x)}}

\* C17: for a workflow with condition any, the query issued with the cursor reached so
\* far selects exactly the authenticated user's emails below the cursor that satisfy
\* at least one rule.
C17_AnySelectsEveryMatch ==
    (/\ pc = "query"
     /\ wf.condition = "any"
     /\ \A i \in DOMAIN wf.rules : RuleDefined(wf.rules[i])
     /\ ~get_emails_raises(db, wf, loc.user_id, loc.last_processed_email_id,
                           PROCESSING_BATCH_SIZE))
    => SelectedIds(db, wf, loc.user_id, loc.last_processed_email_id)
            = AnyRuleIds(db, wf, loc.user_id, loc.last_processed_email_id)

\* C17 for the emails that have a to-recipient
C17_AnyAmongEmailsWithRecipient ==
    (/\ pc = "query"
     /\ wf.condition = "any"
     /\ \A i \in DOMAIN wf.rules : RuleDefined(wf.rules[i])
     /\ ~get_emails_raises(db, wf, loc.user_id, loc.last_processed_email_id,
                           PROCESSING_BATCH_SIZE))
    => /\ SelectedIds(db, wf, loc.user_id, loc.last_processed_email_id)
            \subseteq AnyRuleIds(db, wf, loc.user_id, loc.last_processed_email_id)
       /\ \A e \in db.emails :
            (/\ e.id \in AnyRuleIds(db, wf, loc.user_id, loc.last_processed_email_id)
             /\ ToRecipients(db, e) # {})
            => e.id \in SelectedIds(db, wf, loc.user_id, loc.last_processed_email_id)

(***************************************************************************)
(* The rule compiler on its own: one workflow document is compiled.  In    *)
(* this specification wf is the document and hist the compilation result.  *)
(***************************************************************************)
StringFields == {f \in DOMAIN FILTER_FIELDS_MAPPING : FILTER_FIELDS_MAPPING[f].type = "string"}

SpecPredicates == {"equals", "not_equals", "contains", "does_not_contains"}

\* predicates a rule of a document may carry
DocumentPredicates ==
    SpecPredicates \cup {"contains_tsvechor", "starts_with", "less_than"}

CompileRulesChoices ==
    {Rule(f, p, <<"bob">>, NULL) : f \in StringFields, p \in DocumentPredicates}

CompileInputs ==
    {Workflow(c, rs, "mark_read", NULL) :
        c \in {"all", "any"},
        rs \in UNION {[1..n -> CompileRulesChoices] : n \in 1..2}}

\* EmailRepository._build_apply_filter_query for the document
Compile ==
    /\ pc = "idle"
    /\ pc' = "compiled"
    /\ hist' = build_apply_filter_query(wf, 1, 0, PROCESSING_BATCH_SIZE)
    /\ UNCHANGED <<db, wf, loc, invocations, runlog, ingest, logging>>

InitCompile ==
    /\ db = EmptyDb
    /\ ingest = IngestIdle
    /\ logging = NoLoggers
    /\ pc = "idle"
    /\ wf \in CompileInputs
    /\ loc = NULL
    /\ hist = NULL
    /\ invocations = 0
    /\ runlog = <<>>

NextCompile == Compile

SpecCompile == InitCompile /\ [][NextCompile]_vars

\* the condition a rule stands for: the token match for contains / does_not_contains
\* on a full-text field, the predicate's own template otherwise
ExpectedOperator(rule) ==
    IF /\ rule.field_name \in FULL_TEXT_SEARCH_FIELDS
       /\ rule.predicate \in {"contains", "does_not_contains"}
    THEN rule.predicate \o "_tsvechor"
    ELSE rule.predicate

\* C18: a document whose rules are on string fields compiles without error when every
\* predicate is one of equals, not_equals, contains, does_not_contains, and each rule
\* yields the condition of its field and predicate; with any other predicate the
\* compilation fails with the unsupported-predicate error.
C18_StringPredicates ==
    pc = "compiled" =>
        IF \A i \in DOMAIN wf.rules : wf.rules[i].predicate \in SpecPredicates
        THEN /\ hist.error = NULL
             /\ Len(hist.conds) = Len(wf.rules)
             /\ \A i \in DOMAIN wf.rules :
                    /\ hist.conds[i].kind = "string"
                    /\ hist.conds[i].field = wf.rules[i].field_name
                    /\ hist.conds[i].operator = ExpectedOperator(wf.rules[i])
                    /\ hist.conds[i].value = wf.rules[i].value
        ELSE hist.error = "ValueError"

\* C18 for the documents without equals / not_equals on a full-text field and without
\* a template name used as predicate
C18_StringPredicatesElsewhere ==
    (/\ pc = "compiled"
     /\ \A i \in DOMAIN wf.rules :
            /\ wf.rules[i].field_name \in FULL_TEXT_SEARCH_FIELDS =>
                    wf.rules[i].predicate \notin {"equals", "not_equals"}
            /\ wf.rules[i].predicate # "contains_tsvechor")
    => C18_StringPredicates

\* C19: a run of a workflow with condition all and an empty rule list, in which no
\* action call fails, applies the action to every email of the user and ends
\* completed.
C19_EmptyRulesSelectAll ==
    (/\ pc = "done"
     /\ RunCreated
     /\ hist.failures = 0
     /\ wf.condition = "all"
     /\ wf.rules = <<>>)
    => /\ hist.outcome = "ok"
       /\ \A e \in db.emails : e.user_id = loc.user_id => ActionApplied(e)
       /\ RunStatus(loc.run_id) = "completed"

\* C20: a rule whose field is not in the field registry makes the first query fail with
\* the lookup error during compilation: no batch is obtained and no provider action is
\* invoked, and the run row of the invocation ends failed.
C20_UnknownField ==
    (/\ pc = "done"
     /\ RunCreated
     /\ \E i \in DOMAIN wf.rules : wf.rules[i].field_name \notin DOMAIN FILTER_FIELDS_MAPPING)
    => /\ hist.outcome = "error"
       /\ hist.raised
       /\ build_apply_filter_query(wf, loc.user_id, 0, PROCESSING_BATCH_SIZE).error = "KeyError"
       /\ hist.queries = 1
       /\ hist.batches = <<>>
       /\ \A i \in DOMAIN hist.provider : hist.provider[i].op = "authenticate"
       /\ db.workflow_run_activity = hist.db0.workflow_run_activity
       /\ RunStatus(loc.run_id) = "failed"

\* C20 without the status of the run row
C20_UnknownFieldBeforeAnyAction ==
    (/\ pc = "done"
     /\ RunCreated
     /\ \E i \in DOMAIN wf.rules : wf.rules[i].field_name \notin DOMAIN FILTER_FIELDS_MAPPING)
    => /\ hist.outcome = "error"
       /\ hist.raised
       /\ build_apply_filter_query(wf, loc.user_id, 0, PROCESSING_BATCH_SIZE).error = "KeyError"
       /\ hist.queries = 1
       /\ hist.batches = <<>>
       /\ \A i \in DOMAIN hist.provider : hist.provider[i].op = "authenticate"
       /\ db.workflow_run_activity = hist.db0.workflow_run_activity
       /\ RunStatus(loc.run_id) # "completed"


(***************************************************************************)
(* The batch loop while an ingestion process of the same account stores    *)
(* newly arrived messages.  In this specification the variable ingest      *)
(* holds the arrivals: the email id each one drew and how many queries the *)
(* workflow run had issued by then.                                        *)
(***************************************************************************)
\* messages that reach the account after the earlier ingestion runs
ArrivingMessages ==
    {Msg("m4", <<"invoice">>, Ann, <<Bob, Rob>>, <<>>, 3, <<>>, <<"Work">>),
     Msg("m5", <<"payroll">>, Bob, <<Ann>>, <<>>, 3, <<>>, <<>>)}

LoopWorkflows ==
    {Workflow("any", <<SubjectContains, FromContains>>, "mark_read", NULL),
     Workflow("all", <<ToContains>>, "move", "Done"),
     Workflow("all", <<SubjectEquals>>, "mark_read", NULL)}

\* one invocation of the workflow processor
ExecuteOnce(workflow) ==
    /\ pc = "idle"
    /\ Execute(workflow)

\* EmailFetcher._process_email of the other process, once per arrived message:
\* upsert_email, committed as one unit or rolled back
Arrive(address, message, fault) ==
    LET user_id == get_user_by_email(db, address).id
        folder_map == CHOOSE fm \in FolderMaps(db, user_id) : TRUE
        folder_ids == folder_ids_of(message.folders, folder_map)
    IN  /\ \A i \in DOMAIN ingest.arrivals : ingest.arrivals[i].provider_id # message.id
        /\ db' = upsert_email(db, user_id, message, folder_ids, fault)
        /\ ingest' = [ingest EXCEPT
                !.arrivals = Append(@,
                    [email_id |-> InsertId(db, "emails"),
                     provider_id |-> message.id,
                     stored |-> /\ ~email_exists(db, user_id, message)
                                /\ ~upsert_email_raises(db, user_id, message,
                                                        folder_ids, fault),
                     queries |-> IF pc = "idle" THEN 0 ELSE hist.queries])]
        /\ UNCHANGED <<EngineVars, logging>>

\* what the earlier ingestion runs of the account, and of another one, stored
StoredMessage(id) == CHOOSE m \in ProviderMessages : m.id = id /\ m.folders # <<"Done">>

LoopCorpora ==
    {<<<<"me@x", StoredMessage("m1")>>, <<"me@x", StoredMessage("m2")>>,
       <<"me@x", StoredMessage("m3")>>>>,
     <<<<"me@x", StoredMessage("m3")>>, <<"other@x", StoredMessage("m1")>>,
       <<"me@x", StoredMessage("m2")>>, <<"me@x", StoredMessage("m1")>>>>}

InitLoop ==
    /\ \E c \in LoopCorpora : db = fetch_all(EmptyDb, c)
    /\ ingest = [arrivals |-> <<>>]
    /\ EngineIdle

\* the steps of the workflow processor
NextRun ==
    \/ \E w \in LoopWorkflows : ExecuteOnce(w)
    \/ \E a \in TokenAccounts : Authenticate(a)
    \/ PersistWorkflow
    \/ MarkStarted
    \/ QueryBatch
    \/ \E fault \in {"none", "provider", "log"} : ApplyAction(fault)
    \/ MarkCompleted
    \/ MarkFailed

NextLoop ==
    \/ NextRun
    \/ \E a \in TokenAccounts, m \in ArrivingMessages, fault \in {0, MaxFault} :
            Arrive(a, m, fault)

SpecLoop == InitLoop /\ [][NextLoop]_vars

\* One run over the stored emails, no other process at work.  The workflow processor
\* is a sequential program: once invoked it goes on to its next statement.
SpecRunFair ==
    /\ InitLoop
    /\ [][NextRun]_vars
    /\ WF_vars(\E a \in TokenAccounts : Authenticate(a))
    /\ WF_vars(PersistWorkflow)
    /\ WF_vars(MarkStarted)
    /\ WF_vars(QueryBatch)
    /\ WF_vars(\E fault \in {"none", "provider", "log"} : ApplyAction(fault))
    /\ WF_vars(MarkCompleted)
    /\ WF_vars(MarkFailed)

(***************************************************************************)
(* Claims about the batch loop.                                            *)
(***************************************************************************)
Last(s) == s[Len(s)]

\* the emails the run's provider action was invoked for
VisitedIds ==
    {hist.provider[i].email_id :
        i \in {k \in DOMAIN hist.provider : hist.provider[k].op = action_op(wf)}}

\* C21: the batch loop of a workflow run terminates.  The cursor handed to each
\* further query is the last id of the batch before it and lies strictly below the
\* cursor of the query before and above every id the query returns; every query
\* before the last returned a match, and the loop ends with the first query that
\* returns none (or raises), whether or not actions fail on the way.
C21_BatchLoopTerminates ==
    /\ [](pc # "idle" =>
            /\ \A i, j \in DOMAIN hist.batches :
                    i < j => /\ Last(hist.batches[j]) < Last(hist.batches[i])
                             /\ \A x \in Range(hist.batches[j]) : x < Last(hist.batches[i])
            /\ pc = "query" =>
                    loc.last_processed_email_id =
                        IF hist.batches = <<>> THEN 0 ELSE Last(Last(hist.batches))
            /\ pc \in {"query", "apply"} => hist.queries = Len(hist.batches)
            /\ pc \in {"mark_completed", "mark_failed"} =>
                    hist.queries = Len(hist.batches) + 1)
    /\ (pc = "query") ~> (pc = "done")

\* C21 witness: a run went through two batches, an action failed on the way, and the
\* run has ended.
C21_Witness ==
    /\ pc = "done"
    /\ hist.outcome = "ok"
    /\ Len(hist.batches) >= 2
    /\ hist.failures > 0

\* the emails stored by an arrival after the run's first query
ArrivedDuringLoop ==
    {ingest.arrivals[i].email_id :
        i \in {k \in DOMAIN ingest.arrivals :
                    ingest.arrivals[k].stored /\ ingest.arrivals[k].queries > 0}}

\* C22: when an ingestion process stores new emails while the batch loop runs, no
\* email is in two different batches of the run, and once the loop has ended every
\* email the workflow's query matches that was stored before the run's first query
\* has been visited.
C22_ConcurrentInserts ==
    pc # "idle" =>
        /\ \A i, j \in DOMAIN hist.batches :
                i # j => Range(hist.batches[i]) \cap Range(hist.batches[j]) = {}
        /\ (pc = "mark_completed" \/ (pc = "done" /\ hist.outcome = "ok")) =>
                \A e \in db.emails :
                    (/\ e.id \in MatchingIds(db, wf, loc.user_id)
                     /\ e.id \notin ArrivedDuringLoop)
                    => e.id \in VisitedIds

\* C22 witness: a matching email was stored between two queries of a run that went
\* through two batches, with a larger id than every email stored before.
C22_Witness ==
    /\ pc = "done"
    /\ hist.outcome = "ok"
    /\ Len(hist.batches) >= 2
    /\ \E i \in DOMAIN ingest.arrivals :
            /\ ingest.arrivals[i].stored
            /\ ingest.arrivals[i].queries = 1
            /\ ingest.arrivals[i].email_id \in MatchingIds(db, wf, loc.user_id)
            /\ \A e \in hist.db0.emails : e.id < ingest.arrivals[i].email_id


(***************************************************************************)
(* upsert_email statement by statement, in two ingestion processes of one  *)
(* account.  Each process has its own connection (DbClient is a singleton  *)
(* per process): db is the committed store every connection reads, and the *)
(* rows a connection wrote since its last commit or rollback are pending   *)
(* and visible to that connection only.  Sequence values are drawn when    *)
(* the insert runs.  In this specification the variable ingest holds the   *)
(* two sessions and, per email id, the child rows its unit consists of.    *)
(***************************************************************************)
MaxSessionCalls == 3

MaxSessionFaults == 1

Processes == {1, 2}

\* how a storage call can end: it returns, it raises psycopg2.Error, or the driver
\* raises another exception before the statement is sent (ValueError for a string with
\* a NUL character, TypeError for parameters it cannot adapt)
CallOutcomes == {"returns", "psycopg2.Error", "ValueError"}

SessionMessages == {StoredMessage("m1"), StoredMessage("m3")}

SessionIdle ==
    [pc |-> "idle", pending |-> <<>>, todo |-> <<>>, email_id |-> 0,
     user_id |-> 0, message |-> NULL, folder_ids |-> <<>>]

\* connection.commit(): the pending rows become part of the committed store
RECURSIVE commit_transaction(_, _)
commit_transaction(d, pending) ==
    IF pending = <<>> THEN d
    ELSE commit_transaction(
            [d EXCEPT ![Head(pending).table] = @ \cup {Head(pending).row}],
            Tail(pending))

\* count("emails", {provider_id, user_id}) as the connection sees it
visible_count(d, pending, user_id, provider_id) ==
    Cardinality(
        {e \in d.emails : e.provider_id = provider_id /\ e.user_id = user_id}
        \cup {pending[i].row :
                i \in {k \in DOMAIN pending :
                        /\ pending[k].table = "emails"
                        /\ pending[k].row.provider_id = provider_id
                        /\ pending[k].row.user_id = user_id}})

\* _process_email and the head of upsert_email: folder_ids, the count, the early return
UpsertBegin(p, address, message) ==
    LET s == ingest.sessions[p]
        user_id == get_user_by_email(db, address).id
        folder_map == CHOOSE fm \in FolderMaps(db, user_id) : TRUE
    IN  /\ s.pc = "idle"
        /\ ingest.calls < MaxSessionCalls
        /\ ingest' = [ingest EXCEPT
                !.calls = @ + 1,
                !.sessions[p] =
                    IF visible_count(db, s.pending, user_id, message.id) > 0
                    THEN s
                    ELSE [s EXCEPT
                            !.pc = "insert",
                            !.user_id = user_id,
                            !.message = message,
                            !.email_id = 0,
                            !.folder_ids = folder_ids_of(message.folders, folder_map),
                            !.todo = <<[table |-> "emails",
                                        data |-> email_record_object(user_id, message)]>>]]
        /\ UNCHANGED <<db, EngineVars, logging>>

\* the next insert of the unit.  psycopg2.Error: _execute rolls the connection back
\* and re-raises; any exception leaves upsert_email and is caught by _process_email.
UpsertInsert(p, outcome) ==
    LET s == ingest.sessions[p]
        stmt == Head(s.todo)
        id == db.seq[stmt.table]
        email_id == IF stmt.table = "emails" THEN id ELSE s.email_id
        todo == IF stmt.table = "emails"
                THEN child_inserts(id, s.message, s.folder_ids)
                ELSE Tail(s.todo)
    IN  /\ s.pc = "insert"
        /\ outcome # "returns" => ingest.faults < MaxSessionFaults
        /\ db' = IF outcome = "returns" THEN [db EXCEPT !.seq[stmt.table] = @ + 1] ELSE db
        /\ ingest' = [ingest EXCEPT
                !.faults = IF outcome = "returns" THEN @ ELSE @ + 1,
                !.unrolled = IF outcome = "ValueError" THEN @ + 1 ELSE @,
                !.units = IF outcome = "returns" /\ stmt.table = "emails"
                          THEN (id :> Range(todo)) @@ @ ELSE @,
                !.sessions[p] =
                    CASE outcome = "returns" ->
                            [s EXCEPT
                                !.pending = Append(@, [table |-> stmt.table,
                                                       row |-> [id |-> id] @@ stmt.data]),
                                !.email_id = email_id,
                                !.todo = todo,
                                !.pc = IF todo = <<>> THEN "commit" ELSE "insert"]
                      [] outcome = "psycopg2.Error" ->
                            [s EXCEPT !.pending = <<>>, !.todo = <<>>, !.pc = "idle"]
                      [] OTHER ->
                            [s EXCEPT !.todo = <<>>, !.pc = "idle"]]
        /\ UNCHANGED <<EngineVars, logging>>

\* self._get_db_client().commit_transaction() at the end of upsert_email
UpsertCommit(p) ==
    LET s == ingest.sessions[p]
    IN  /\ s.pc = "commit"
        /\ db' = commit_transaction(db, s.pending)
        /\ ingest' = [ingest EXCEPT
                !.sessions[p] = [s EXCEPT !.pending = <<>>, !.pc = "idle"]]
        /\ UNCHANGED <<EngineVars, logging>>

\* the process dies inside upsert_email: its connection closes without a commit, and
\* the fetch command is started again
Crash(p) ==
    LET s == ingest.sessions[p]
    IN  /\ s.pc \in {"insert", "commit"}
        /\ ingest.faults < MaxSessionFaults
        /\ ingest' = [ingest EXCEPT !.faults = @ + 1, !.sessions[p] = SessionIdle]
        /\ UNCHANGED <<db, EngineVars, logging>>

\* both users exist and the account's folders are synced
InitSessions ==
    /\ db = LET d == upsert_user(upsert_user(EmptyDb, "me@x"), "other@x")
            IN  upsert_folders(d, upsert_user_id(d, "me@x"), AccountFolders)
    /\ ingest = [sessions |-> [p \in Processes |-> SessionIdle], calls |-> 0,
                 faults |-> 0, unrolled |-> 0, units |-> <<>>]
    /\ EngineIdle

NextSessions ==
    \/ \E p \in Processes, a \in TokenAccounts, m \in SessionMessages : UpsertBegin(p, a, m)
    \/ \E p \in Processes, outcome \in CallOutcomes : UpsertInsert(p, outcome)
    \/ \E p \in Processes : UpsertCommit(p)
    \/ \E p \in Processes : Crash(p)

SpecSessions == InitSessions /\ [][NextSessions]_vars


(***************************************************************************)
(* Claims about the units upsert_email commits.                            *)
(***************************************************************************)
WithoutId(row) == [k \in DOMAIN row \ {"id"} |-> row[k]]

\* the committed child rows of an email, as the inserts that wrote them
CommittedChildren(d, email_id) ==
    {[table |-> "email_recipients", data |-> WithoutId(r)] :
        r \in {x \in d.email_recipients : x.email_id = email_id}}
    \cup {[table |-> "email_folders", data |-> WithoutId(r)] :
        r \in {x \in d.email_folders : x.email_id = email_id}}
    \cup {[table |-> "email_attachments", data |-> WithoutId(r)] :
        r \in {x \in d.email_attachments : x.email_id = email_id}}

\* C23: the committed store never holds an Email row without the full set of its
\* recipient, folder-association and attachment rows, nor a child row without its
\* Email row: when a storage call of the unit fails or the process dies before the
\* commit, no row of the unit becomes visible, also not with a later unit's commit.
C23_UnitCommittedWhole ==
    /\ \A e \in db.emails :
            /\ e.id \in DOMAIN ingest.units
            /\ CommittedChildren(db, e.id) = ingest.units[e.id]
    /\ \A r \in db.email_recipients \cup db.email_folders \cup db.email_attachments :
            \E e \in db.emails : e.id = r.email_id

\* C23 when every failing storage call raised psycopg2.Error (or the process died)
C23_WholeAfterDatabaseErrors ==
    ingest.unrolled = 0 => C23_UnitCommittedWhole

\* C30: with two ingestion processes of one account interleaved storage call by
\* storage call, the committed store never holds two Email rows for the same
\* (user, provider id).
C30_OneEmailRowPerMessage ==
    \A e1, e2 \in db.emails :
        (e1.user_id = e2.user_id /\ e1.provider_id = e2.provider_id) => e1.id = e2.id


(***************************************************************************)
(* Timestamp rules: one query for a workflow with a rule on date_received, *)
(* over emails received before and after NOW().  In this specification wf  *)
(* is the document and hist what get_emails_by_applying_rules did.         *)
(***************************************************************************)
\* days on which the stored emails were received: up to three days after NOW()
WindowDays == 0..(Now + 3)

StampedMessage(day) ==
    Msg("t" \o ToString(day), <<"note">>, Ann, <<>>, <<>>, day, <<>>, <<>>)

RECURSIVE ascending(_)
ascending(S) ==
    IF S = {} THEN <<>>
    ELSE LET x == CHOOSE y \in S : \A z \in S : y <= z
         IN  <<x>> \o ascending(S \ {x})

RECURSIVE descending(_)
descending(S) ==
    IF S = {} THEN <<>>
    ELSE LET x == CHOOSE y \in S : \A z \in S : z <= y
         IN  <<x>> \o descending(S \ {x})

\* what the account's ingestion runs stored, after a run of another account or not
WindowCorpora ==
    {front \o [i \in 1..Cardinality(S) |-> <<"me@x", StampedMessage(ascending(S)[i])>>] :
        S \in {T \in SUBSET WindowDays : Cardinality(T) <= MaxEmails + 1},
        front \in {<<>>, <<<<"other@x", StampedMessage(0)>>>>}}

WindowPredicates == TIMESTAMP_OPERATORS \cup {"equals", "contains"}

WindowWorkflows ==
    {Workflow(c, <<Rule("date_received", p, <<v>>, u)>>, "mark_read", NULL) :
        c \in {"all", "any"}, p \in WindowPredicates,
        v \in DOMAIN NumberWords, u \in {"days", "months"}}

\* EmailRepository.get_emails_by_applying_rules for the first batch of a run
SelectBatch(address) ==
    LET user_id == get_user_by_email(db, address).id
        raised == get_emails_raises(db, wf, user_id, 0, PROCESSING_BATCH_SIZE)
    IN  /\ pc = "idle"
        /\ pc' = "selected"
        /\ hist' = [user_id |-> user_id,
                    raised |-> raised,
                    error |-> build_apply_filter_query(wf, user_id, 0,
                                                       PROCESSING_BATCH_SIZE).error,
                    rows |-> IF raised THEN <<>>
                             ELSE get_emails_by_applying_rules(db, wf, user_id, 0,
                                                               PROCESSING_BATCH_SIZE)]
        /\ UNCHANGED <<db, wf, loc, invocations, runlog, ingest, logging>>

InitWindow ==
    /\ \E c \in WindowCorpora :
            db = fetch_all(upsert_user(upsert_user(EmptyDb, "me@x"), "other@x"), c)
    /\ ingest = IngestIdle
    /\ logging = NoLoggers
    /\ pc = "idle"
    /\ wf \in WindowWorkflows
    /\ loc = NULL
    /\ hist = NULL
    /\ invocations = 0
    /\ runlog = <<>>

NextWindow == \E a \in TokenAccounts : SelectBatch(a)

SpecWindow == InitWindow /\ [][NextWindow]_vars

\* the ids of the user's emails received later than now + interval (greater_than) or
\* earlier than now - interval (less_than)
WindowIds(d, rule, user_id) ==
    LET span == interval_of(rule.value, rule.value_unit)
    IN  {e.id : e \in {x \in d.emails :
                        /\ x.user_id = user_id
                        /\ IF rule.predicate = "greater_than"
                           THEN x.received_timestamp > Now + span
                           ELSE x.received_timestamp < Now - span}}

\* C24: for a rule on the timestamp field with value v and unit u, greater_than
\* selects exactly the user's emails received later than now + interval(v, u) and
\* less_than exactly those received earlier than now - interval(v, u), newest id
\* first and a batch at a time; with any other predicate the query is rejected with
\* the unsupported-operator error.
C24_TimestampWindow ==
    pc = "selected" =>
        LET rule == wf.rules[1]
        IN  IF rule.predicate \in {"greater_than", "less_than"}
            THEN /\ ~hist.raised
                 /\ SelectedIds(db, wf, hist.user_id, 0) = WindowIds(db, rule, hist.user_id)
                 /\ [i \in DOMAIN hist.rows |-> hist.rows[i].id]
                        = Take(descending(WindowIds(db, rule, hist.user_id)),
                               PROCESSING_BATCH_SIZE)
            ELSE /\ hist.raised
                 /\ hist.error = "ValueError"

\* C24 witness: a greater_than rule selected an email received later than now + the
\* interval and left out one received after now but within the interval, and an
\* older one.
C24_Witness ==
    /\ pc = "selected"
    /\ wf.rules[1].predicate = "greater_than"
    /\ hist.rows # <<>>
    /\ \E e1, e2 \in db.emails :
            /\ e1.user_id = hist.user_id
            /\ e2.user_id = hist.user_id
            /\ e1.received_timestamp > Now
            /\ e2.received_timestamp < Now
            /\ \A i \in DOMAIN hist.rows : hist.rows[i].id \notin {e1.id, e2.id}


(***************************************************************************)
(* Claims about the audit rows and the run rows of an invocation.          *)
(***************************************************************************)
\* the provider calls of the invocation that applied the workflow's action
ActionCalls == {i \in DOMAIN hist.provider : hist.provider[i].op = action_op(wf)}

\* C25: every workflow_run_activity row written by the invocation carries the id of
\* the run created for it and the workflow's action type, and is for an email whose
\* provider action returned without error; an email whose action raised has no audit
\* row in the run.
C25_AuditAfterAction ==
    (pc # "idle" /\ RunCreated) =>
        /\ \A a \in db.workflow_run_activity \ hist.db0.workflow_run_activity :
                /\ a.run_id = loc.run_id
                /\ a.action_type = wf.action
                /\ \E i \in ActionCalls :
                        hist.provider[i].email_id = a.email_id /\ ~hist.provider[i].raised
        /\ \A i \in ActionCalls :
                hist.provider[i].raised =>
                    \A a \in db.workflow_run_activity :
                        ~(a.run_id = loc.run_id /\ a.email_id = hist.provider[i].email_id)

\* C25 for the workflows without a rule on the to field
C25_AuditAfterActionWithoutToRule ==
    (pc # "idle" /\ \A r \in DOMAIN wf.rules : wf.rules[r].field_name # "to")
        => C25_AuditAfterAction

\* C26: an invocation changes no WorkflowRun row other than the one it created: a row
\* with another id is the same before and after every step of the invocation.
C26_OnlyOwnRunRow ==
    [][\A r \in db.workflow_run :
            (pc # "idle" /\ pc' # "authenticate" /\ r.id # loc'.run_id)
                => r \in db'.workflow_run]_vars

\* C26, what holds: every update is keyed by the workflow id add_workflow_run returned
C26_KeyedByWorkflowId ==
    [][\A r \in db.workflow_run :
            (pc # "idle" /\ pc' # "authenticate" /\ r.id # loc'.workflow_id)
                => r \in db'.workflow_run]_vars


(***************************************************************************)
(* Claim about the folder rows of another user.                            *)
(***************************************************************************)
\* C27: upsert_folder called for user A never modifies or re-assigns a folder row of
\* another user B: every row whose user_id is not A is the same after the call.
C27_OtherUsersFoldersKept ==
    [][(ingest'.last.op = "upsert_folder" /\ ingest'.calls # ingest.calls) =>
        \A r \in db.folders :
            r.user_id # ingest'.last.user_id => r \in db'.folders]_vars


(***************************************************************************)
(* The exception flow of WorkflowProcessor.execute and                    *)
(* EmailFetcher.execute: which statement raises what, and which except     *)
(* clause the exception reaches.                                           *)
(***************************************************************************)
MaxExecuteCalls == 2
MaxExecuteFaults == 2

\* the exception classes an invocation can raise, each with its base class
base_class ==
    ("AttributeError" :> "Exception") @@ ("ValueError" :> "Exception")
    @@ ("OSError" :> "Exception") @@ ("FileNotFoundError" :> "OSError")
    @@ ("ValidationError" :> "Exception") @@ ("AuthenticationError" :> "Exception")
    @@ ("RefreshError" :> "Exception") @@ ("psycopg2.Error" :> "Exception")
    @@ ("Exception" :> "BaseException")

RECURSIVE issubclass(_, _)
issubclass(cls, base) ==
    IF cls = base THEN TRUE
    ELSE IF cls \notin DOMAIN base_class THEN FALSE
    ELSE issubclass(base_class[cls], base)

\* an except clause for ValueError only
execute_catches_value_errors(exc) == issubclass(exc, "ValueError")

\* except Exception as e, the clause of both execute methods
execute_catches(exc) == issubclass(exc, "Exception")

\* the rule files on disk: what os.path.exists, json.load and the schema make of them
RuleFiles ==
    LET valid == CHOOSE w \in WorkflowFiles : ~validate_rules_raises(w)
        invalid == CHOOSE w \in WorkflowFiles : validate_rules_raises(w)
    IN  ("missing.json" :> [exists |-> FALSE, well_formed |-> FALSE, workflow |-> valid])
        @@ ("malformed.json" :> [exists |-> TRUE, well_formed |-> FALSE, workflow |-> valid])
        @@ ("invalid.json" :> [exists |-> TRUE, well_formed |-> TRUE, workflow |-> invalid])
        @@ ("rules.json" :> [exists |-> TRUE, well_formed |-> TRUE, workflow |-> valid])

\* the arguments execute is called with: main passes a dict; the default is None
ExecuteParams ==
    [WorkflowProcessor |->
        {[given |-> FALSE, workflow_file_path |-> NULL, folder |-> NULL]}
        \cup {[given |-> TRUE, workflow_file_path |-> p, folder |-> NULL] :
                p \in {NULL, ""} \cup DOMAIN RuleFiles},
     EmailFetcher |->
        {[given |-> g, workflow_file_path |-> NULL, folder |-> f] :
            g \in BOOLEAN, f \in FolderParams}]

\* the statements of the try block of execute, in order (those of _process_rules inlined)
ExecuteSteps ==
    [WorkflowProcessor |->
        <<"params", "parse_json_file", "_validate_rules", "authenticate",
          "get_user_by_email", "_persis_workflow", "_mark_workflow_as_started",
          "_apply_rule", "_mark_workflow_as_completed">>,
     EmailFetcher |->
        <<"authenticate", "_process_user", "_process_folders", "params",
          "_process_emails">>]

\* the statements inside the try block of _process_rules
ProcessRulesTry ==
    {"_mark_workflow_as_started", "_apply_rule", "_mark_workflow_as_completed"}

\* what the collaborators (mail provider, database) can make a statement raise
step_faults(step) ==
    CASE step = "authenticate" -> {"RefreshError", "OSError"}
      [] step \in {"_process_folders", "_process_emails"} ->
            {"AuthenticationError", "psycopg2.Error"}
      [] step = "_apply_rule" -> {"psycopg2.Error", "ValueError"}
      [] step \in {"get_user_by_email", "_process_user", "_persis_workflow",
                   "_mark_workflow_as_started", "_mark_workflow_as_completed"} ->
            {"psycopg2.Error"}
      [] OTHER -> {}

\* the exception the statement raises, or "none"
step_raises(processor, step, params, found, fault) ==
    CASE fault # "none" -> fault
      [] step = "params" /\ ~params.given -> "AttributeError"
      [] step = "params" /\ processor = "WorkflowProcessor"
            /\ params.workflow_file_path \in {NULL, ""} -> "ValueError"
      [] step = "parse_json_file" /\ ~RuleFiles[params.workflow_file_path].exists ->
            "FileNotFoundError"
      [] step = "parse_json_file" /\ ~RuleFiles[params.workflow_file_path].well_formed ->
            "ValueError"
      [] step = "_validate_rules"
            /\ validate_rules_raises(RuleFiles[params.workflow_file_path].workflow) ->
            "ValidationError"
      [] step = "get_user_by_email" /\ ~found -> "ValueError"
      [] OTHER -> "none"

NoException == [level |-> "info", exc |-> "none"]

ExecuteIdle ==
    [at |-> "idle", processor |-> "none",
     params |-> [given |-> FALSE, workflow_file_path |-> NULL, folder |-> NULL],
     next |-> 1, raised |-> <<>>, log |-> <<>>, faults |-> 0, calls |-> 0,
     history |-> <<>>]

\* main: processor.execute(arguments)
ExecuteCall(processor, params) ==
    /\ ingest.at \in {"idle", "returned"}
    /\ ingest.calls < MaxExecuteCalls
    /\ ingest' = [ExecuteIdle EXCEPT
            !.at = "try", !.processor = processor, !.params = params,
            !.calls = ingest.calls + 1, !.history = ingest.history]
    /\ UNCHANGED <<db, EngineVars, logging>>

\* the next statement of the try block: it returns, or raises into the except clause
\* of _process_rules (when inside its try block) or of execute; after the last
\* statement execute logs success and returns
ExecuteStep(found, fault) ==
    LET steps == ExecuteSteps[ingest.processor]
        step == steps[ingest.next]
        exc == step_raises(ingest.processor, step, ingest.params, found, fault)
    IN  /\ ingest.at = "try"
        /\ fault \in step_faults(step) \cup {"none"}
        /\ fault # "none" => ingest.faults < MaxExecuteFaults
        /\ ingest' =
            IF exc # "none"
            THEN [ingest EXCEPT
                    !.raised = Append(@, exc),
                    !.faults = IF fault = "none" THEN @ ELSE @ + 1,
                    !.at = IF step \in ProcessRulesTry THEN "_process_rules.except"
                           ELSE "execute.except"]
            ELSE IF ingest.next < Len(steps)
            THEN [ingest EXCEPT !.next = @ + 1]
            ELSE [ingest EXCEPT
                    !.log = Append(@, NoException),
                    !.history = Append(@, [processor |-> ingest.processor,
                                           raised |-> ingest.raised]),
                    !.at = "returned"]
        /\ UNCHANGED <<db, EngineVars, logging>>

\* except Exception as e: self._mark_workflow_as_completed(workflow_id,
\* is_successful=False); raise e.  When the update raises, its exception leaves.
ProcessRulesExcept(fault) ==
    /\ ingest.at = "_process_rules.except"
    /\ fault \in step_faults("_mark_workflow_as_completed") \cup {"none"}
    /\ fault # "none" => ingest.faults < MaxExecuteFaults
    /\ ingest' = [ingest EXCEPT
            !.raised = IF fault = "none" THEN @ ELSE Append(@, fault),
            !.faults = IF fault = "none" THEN @ ELSE @ + 1,
            !.at = "execute.except"]
    /\ UNCHANGED <<db, EngineVars, logging>>

\* the except clause of execute: a caught exception is logged and execute returns,
\* any other leaves execute
ExecuteExcept ==
    /\ ingest.at = "execute.except"
    /\ ingest' =
        IF execute_catches(Last(ingest.raised))
        THEN [ingest EXCEPT
                !.log = Append(@, [level |-> "error", exc |-> Last(ingest.raised)]),
                !.history = Append(@, [processor |-> ingest.processor,
                                       raised |-> ingest.raised]),
                !.at = "returned"]
        ELSE [ingest EXCEPT !.at = "propagated"]
    /\ UNCHANGED <<db, EngineVars, logging>>

InitExecute ==
    /\ db = EmptyDb
    /\ ingest = ExecuteIdle
    /\ EngineIdle

NextExecute ==
    \/ \E p \in DOMAIN ExecuteSteps : \E params \in ExecuteParams[p] : ExecuteCall(p, params)
    \/ \E found \in BOOLEAN, fault \in DOMAIN base_class \cup {"none"} :
            ExecuteStep(found, fault)
    \/ \E fault \in DOMAIN base_class \cup {"none"} : ProcessRulesExcept(fault)
    \/ ExecuteExcept

SpecExecute == InitExecute /\ [][NextExecute]_vars

\* C28: WorkflowProcessor.execute and EmailFetcher.execute never propagate an
\* exception: whatever a statement of the invocation raised (missing workflow path,
\* unreadable or invalid rule file, missing user, authentication or storage error) is
\* caught and logged as an error by execute, which returns; without a failure it logs
\* success.
C28_ExecuteNeverPropagates ==
    /\ ingest.at # "propagated"
    /\ ingest.at = "returned" =>
            ingest.log = IF ingest.raised = <<>> THEN <<NoException>>
                         ELSE <<[level |-> "error", exc |-> Last(ingest.raised)]>>

\* C28 witness: a workflow-processor invocation whose run failed with a storage error
\* and whose mark-failed update raised as well has returned, and so has an ingestion
\* run whose provider call raised AuthenticationError.
C28_Witness ==
    /\ ingest.at = "returned"
    /\ Len(ingest.history) = 2
    /\ ingest.history[1].processor = "WorkflowProcessor"
    /\ ingest.history[1].raised = <<"psycopg2.Error", "psycopg2.Error">>
    /\ ingest.history[2].processor = "EmailFetcher"
    /\ ingest.history[2].raised = <<"AuthenticationError">>


(***************************************************************************)
(* Claim about the messages an ingestion run requests.                     *)
(***************************************************************************)
\* a _pull_messages call of the run has just received the provider's answer
PassIssued == ingest.pc = "pass" /\ Len(ingest'.passes) = Len(ingest.passes) + 1

\* the received timestamps of the messages that answer delivered
RequestedStamps ==
    {received_timestamp_of(ingest'.delivered[i].received_timestamp) :
        i \in (Len(ingest.delivered) + 1)..Len(ingest'.delivered)}

Outside(stamps, t) ==
    t < Min(stamps) \/ t > (CHOOSE x \in stamps : \A y \in stamps : y <= x)

====
